---- MODULE Spec2Model ----
(***************************************************************************)
(* Model of the KubeVela query provider (package query): the endpoint      *)
(* derivation functions generatorFromService / generatorFromIngress, the   *)
(* operation collectServiceEndpoints, the log operation collectLogsInPod   *)
(* and the three list operations.                                          *)
(*                                                                         *)
(* Text is modelled as a sequence of one-character strings, so that        *)
(* strconv.Atoi is computed character by character.  Go's int, int64 and   *)
(* time.Duration are 64-bit two's-complement words; they are modelled as   *)
(* four 16-bit limbs, least significant first, because their values do     *)
(* not fit the model checker's own integers.                               *)
(***************************************************************************)
EXTENDS Integers, Sequences, FiniteSets, TLC

VARIABLES op, arg, out, WebhookHandlers, ds, deployed, calls

vars == <<op, arg, out, WebhookHandlers, ds, deployed, calls>>

\* The state of the webhook usecase: the process-wide list of handlers, the
\* datastore, the requests handed to applicationUsecase.Deploy by each
\* caller's call, and the calls of HandleApplicationWebhook, in flight or
\* returned, of each caller.
webhookVars == <<WebhookHandlers, ds, deployed, calls>>

\* The webhook usecase before anything was constructed or stored.
WebhookUntouched ==
    /\ WebhookHandlers = <<>>
    /\ ds = <<>>
    /\ deployed = <<>>
    /\ calls = <<>>

\* A nil error.
NULL == "<nil>"

\* A Go pointer is a sequence of length 0 (nil) or 1 (the value pointed to).
Nil == <<>>
Ptr(v) == <<v>>
IsNil(p) == Len(p) = 0
Deref(p) == p[1]

(***************************************************************************)
(* 64-bit words as limbs.                                                  *)
(***************************************************************************)
LimbBase == 2^16
HalfBase == 2^15
WordZero == <<0, 0, 0, 0>>
NLimbs == Len(WordZero)

\* The word of a small non-negative number (below 2^31).
Word(n) == <<n % LimbBase, n \div LimbBase, 0, 0>>

\* x * m + a modulo 2^64, for small m and a, with the carry out of the top limb.
RECURSIVE MulAddFrom(_, _, _, _)
MulAddFrom(x, m, carry, i) ==
    IF i > NLimbs
    THEN [limbs |-> <<>>, carry |-> carry]
    ELSE LET t == x[i] * m + carry
             rest == MulAddFrom(x, m, t \div LimbBase, i + 1)
         IN  [limbs |-> <<t % LimbBase>> \o rest.limbs, carry |-> rest.carry]

MulAdd(x, m, a) == MulAddFrom(x, m, a, 1)

\* x + y modulo 2^64.
RECURSIVE AddFrom(_, _, _, _)
AddFrom(x, y, carry, i) ==
    IF i > NLimbs
    THEN <<>>
    ELSE LET t == x[i] + y[i] + carry
         IN  <<t % LimbBase>> \o AddFrom(x, y, t \div LimbBase, i + 1)

Add64(x, y) == AddFrom(x, y, 0, 1)

\* Two's complement negation modulo 2^64 (Go's unary minus on int64).
Neg64(x) == Add64([i \in 1..NLimbs |-> LimbBase - 1 - x[i]], Word(1))

Sub64(x, y) == Add64(x, Neg64(y))

IsNeg64(x) == x[NLimbs] >= HalfBase

\* x * m modulo 2^64 (Go's int64 multiplication by a small constant).
MulSmall64(x, m) == MulAdd(x, m, 0).limbs

\* Unsigned x divided by a small m: quotient and remainder.
RECURSIVE DivFrom(_, _, _, _)
DivFrom(x, m, rem, i) ==
    IF i < 1
    THEN [limbs |-> <<>>, rem |-> rem]
    ELSE LET t == rem * LimbBase + x[i]
             rest == DivFrom(x, m, t % m, i - 1)
         IN  [limbs |-> rest.limbs \o <<t \div m>>, rem |-> rest.rem]

DivSmall(x, m) == DivFrom(x, m, 0, NLimbs)

\* int32(x): the low 32 bits of a word, read as a signed number.
Int32(x) ==
    IF x[2] >= HalfBase
    THEN (x[2] - LimbBase) * LimbBase + x[1]
    ELSE x[2] * LimbBase + x[1]

\* Unsigned comparison x >= y, from the top limb down.
RECURSIVE GeUFrom(_, _, _)
GeUFrom(x, y, i) ==
    IF i < 1 THEN TRUE
    ELSE IF x[i] # y[i] THEN x[i] > y[i]
    ELSE GeUFrom(x, y, i - 1)

GeU(x, y) == GeUFrom(x, y, NLimbs)

(***************************************************************************)
(* strconv.Atoi, as called by getEndpointPort.  intSize is the width of    *)
(* Go's int on the build's platform (strconv.IntSize): 32 or 64.           *)
(***************************************************************************)
DigitChars == <<"0", "1", "2", "3", "4", "5", "6", "7", "8", "9">>

IsDigit(c) == \E i \in 1..Len(DigitChars) : DigitChars[i] = c

DigitVal(c) == (CHOOSE i \in 1..Len(DigitChars) : DigitChars[i] = c) - 1

\* 2^(intSize-1), the first magnitude a positive int cannot hold.
IntCutoff(intSize) ==
    IF intSize = 64 THEN <<0, 0, 0, HalfBase>> ELSE <<0, HalfBase, 0, 0>>

\* 2^intSize - 1, what ParseUint returns with a range error.
UintMax(intSize) ==
    IF intSize = 64 THEN [i \in 1..NLimbs |-> LimbBase - 1]
    ELSE <<LimbBase - 1, LimbBase - 1, 0, 0>>

\* strconv.ParseUint(s, 10, intSize) from character i on: the digits are
\* accumulated left to right; the first non-digit is a syntax error, the
\* first step that leaves the unsigned range a range error.
RECURSIVE ParseUintFrom(_, _, _, _)
ParseUintFrom(s, intSize, n, i) ==
    IF i > Len(s) THEN [val |-> n, err |-> NULL]
    ELSE IF ~IsDigit(s[i]) THEN [val |-> WordZero, err |-> "syntax"]
    ELSE LET t == MulAdd(n, 10, DigitVal(s[i]))
             over == \/ t.carry # 0
                     \/ intSize = 32 /\ (t.limbs[3] # 0 \/ t.limbs[4] # 0)
         IN  IF over THEN [val |-> UintMax(intSize), err |-> "range"]
             ELSE ParseUintFrom(s, intSize, t.limbs, i + 1)

ParseUint(s, intSize) ==
    IF Len(s) = 0 THEN [val |-> WordZero, err |-> "syntax"]
    ELSE ParseUintFrom(s, intSize, WordZero, 1)

\* strconv.Atoi(s): an optional sign, then at least one digit and digits
\* only; the value must fit an int.  val is the int as a 64-bit word.
Atoi(s, intSize) ==
    IF Len(s) = 0 THEN [val |-> WordZero, err |-> "syntax"]
    ELSE LET signed == s[1] = "+" \/ s[1] = "-"
             neg == s[1] = "-"
             u == ParseUint(IF signed THEN Tail(s) ELSE s, intSize)
             cutoff == IntCutoff(intSize)
         IN  IF u.err = "syntax" THEN [val |-> WordZero, err |-> "syntax"]
             ELSE IF ~neg /\ (u.err = "range" \/ GeU(u.val, cutoff))
             THEN [val |-> Sub64(cutoff, Word(1)), err |-> "range"]
             ELSE IF neg /\ (u.err = "range" \/ (GeU(u.val, cutoff) /\ u.val # cutoff))
             THEN [val |-> Neg64(cutoff), err |-> "range"]
             ELSE [val |-> IF neg THEN Neg64(u.val) ELSE u.val, err |-> NULL]

\* port > 0 for a Go int held as a word.
IsPositive(x) == ~IsNeg64(x) /\ x # WordZero

(***************************************************************************)
(* The Endpoint Deriver: generatorFromIngress.                             *)
(***************************************************************************)
AnnoIngressControllerHTTPSPort == "ingress.controller/https-port"
AnnoIngressControllerHTTPPort == "ingress.controller/http-port"

ProtocolTCP == "TCP"

\* ingress.Annotations[key]: a Go map yields "" for a missing key.
Annotation(ingress, key) ==
    IF key \in DOMAIN ingress.annotations THEN ingress.annotations[key] ELSE <<>>

\* The identifying fields of an object, as the API server returns them.
ObjectMeta(kind, apiVersion, name) ==
    [kind |-> kind, apiVersion |-> apiVersion, namespace |-> "default",
     name |-> name, uid |-> "uid-" \o name, resourceVersion |-> "1"]

\* A zero-valued object: every identifying field is empty.
ZeroMeta ==
    [kind |-> "", apiVersion |-> "", namespace |-> "", name |-> "",
     uid |-> "", resourceVersion |-> ""]

\* The ObjectReference every endpoint of an object carries.
ObjectRef(obj) ==
    [kind |-> obj.kind, namespace |-> obj.namespace, name |-> obj.name,
     uid |-> obj.uid, apiVersion |-> obj.apiVersion,
     resourceVersion |-> obj.resourceVersion]

\* Mutant: only the first TLS entry is looked at.
getAppProtocolFrom_FirstOnly(tls, host, i) ==
    IF i > Len(tls) THEN "http"
    ELSE IF Len(tls[i].hosts) > 0 /\ (\E k \in 1..Len(tls[i].hosts) : tls[i].hosts[k] = host)
    THEN "https"
    ELSE IF Len(tls[i].hosts) = 0 THEN "https"
    ELSE "http"

\* The loop of getAppProtocol over ingress.Spec.TLS from entry i on.
RECURSIVE getAppProtocolFrom(_, _, _)
getAppProtocolFrom(tls, host, i) ==
    IF i > Len(tls) THEN "http"
    ELSE IF Len(tls[i].hosts) > 0 /\ (\E k \in 1..Len(tls[i].hosts) : tls[i].hosts[k] = host)
    THEN "https"
    ELSE IF Len(tls[i].hosts) = 0 THEN "https"
    ELSE getAppProtocolFrom(tls, host, i + 1)

getAppProtocol(ingress, host) ==
    IF Len(ingress.tls) > 0 THEN getAppProtocolFrom(ingress.tls, host, 1) ELSE "http"

\* The Go int getEndpointPort returns, as a word.
getEndpointPort(ingress, appProtocol, intSize) ==
    IF appProtocol = "https"
    THEN LET r == Atoi(Annotation(ingress, AnnoIngressControllerHTTPSPort), intSize)
         IN  IF IsPositive(r.val) /\ r.err = NULL THEN r.val ELSE Word(443)
    ELSE LET r == Atoi(Annotation(ingress, AnnoIngressControllerHTTPPort), intSize)
         IN  IF IsPositive(r.val) /\ r.err = NULL THEN r.val ELSE Word(80)

\* Mutant: a rule with an empty host is skipped.
IngressRuleEndpoints_SkipEmptyHost(ingress, rule, intSize) ==
    LET appProtocol == getAppProtocol(ingress, rule.host)
        appPort == getEndpointPort(ingress, appProtocol, intSize)
    IN  IF ~IsNil(rule.http) /\ rule.host # ""
        THEN [j \in 1..Len(Deref(rule.http).paths) |->
                [endpoint |-> [protocol |-> ProtocolTCP,
                               appProtocol |-> Ptr(appProtocol),
                               host |-> rule.host,
                               path |-> Deref(rule.http).paths[j],
                               port |-> Int32(appPort)],
                 ref |-> ObjectRef(ingress)]]
        ELSE <<>>

\* The endpoints one rule appends: one per path when rule.HTTP is set.
IngressRuleEndpoints(ingress, rule, intSize) ==
    LET appProtocol == getAppProtocol(ingress, rule.host)
        appPort == getEndpointPort(ingress, appProtocol, intSize)
    IN  IF ~IsNil(rule.http)
        THEN [j \in 1..Len(Deref(rule.http).paths) |->
                [endpoint |-> [protocol |-> ProtocolTCP,
                               appProtocol |-> Ptr(appProtocol),
                               host |-> rule.host,
                               path |-> Deref(rule.http).paths[j],
                               port |-> Int32(appPort)],
                 ref |-> ObjectRef(ingress)]]
        ELSE <<>>

RECURSIVE generatorFromIngressFrom(_, _, _)
generatorFromIngressFrom(ingress, intSize, i) ==
    IF i > Len(ingress.rules) THEN <<>>
    ELSE IngressRuleEndpoints(ingress, ingress.rules[i], intSize)
            \o generatorFromIngressFrom(ingress, intSize, i + 1)

generatorFromIngress(ingress, intSize) == generatorFromIngressFrom(ingress, intSize, 1)

(***************************************************************************)
(* Errors and the workflow value.                                          *)
(*                                                                         *)
(* An error is a Go error value: a nil pointer or a pointer to its kind    *)
(* and its message, the message being a sequence of pieces of text.        *)
(***************************************************************************)
NoError == Nil
NewError(kind, msg) == Ptr([kind |-> kind, msg |-> msg])

\* errors.Wrapf(err, text): the text, a colon, the cause's message.
Wrapf(err, text) == NewError("wrapped", <<text, ": ">> \o Deref(err).msg)

\* fmt.Errorf("query app failure %w", err)
QueryAppFailure(err) == NewError("wrapped", <<"query app failure ">> \o Deref(err).msg)

\* v.GetString(path) and v.LookupValue(path): the field of the value, or an
\* error when the value has no such field.
HasField(v, path) == path \in DOMAIN v

FieldError(path) == NewError("cue", <<"var(path=", path, ") not exist">>)

(***************************************************************************)
(* Time.  A time.Time is a count of seconds since the epoch, an int64      *)
(* word, with a nanosecond part; a time.Duration is an int64 word of       *)
(* nanoseconds.                                                            *)
(***************************************************************************)
NanosPerSecond == 1000 * 1000 * 1000

\* x / 10^9 and x % 10^9 of an unsigned word, by three divisions by 1000.
DivModBillion(x) ==
    LET d1 == DivSmall(x, 1000)
        d2 == DivSmall(d1.limbs, 1000)
        d3 == DivSmall(d2.limbs, 1000)
    IN  [quot |-> d3.limbs, rem |-> d1.rem + 1000 * d2.rem + 1000 * 1000 * d3.rem]

\* int64(n) * int64(time.Second), modulo 2^64.
TimesSecond(n) == MulSmall64(MulSmall64(MulSmall64(n, 1000), 1000), 1000)

\* t.Add(d): Go divides the duration, truncating toward zero, into whole
\* seconds and nanoseconds, adds both and carries between them.
TimeAdd(t, d) ==
    LET neg == IsNeg64(d)
        dm == DivModBillion(IF neg THEN Neg64(d) ELSE d)
        dsec == IF neg THEN Neg64(dm.quot) ELSE dm.quot
        nsec == t.nsec + (IF neg THEN -dm.rem ELSE dm.rem)
    IN  IF nsec >= NanosPerSecond
        THEN [sec |-> Add64(Add64(t.sec, dsec), Word(1)), nsec |-> nsec - NanosPerSecond]
        ELSE IF nsec < 0
        THEN [sec |-> Sub64(Add64(t.sec, dsec), Word(1)), nsec |-> nsec + NanosPerSecond]
        ELSE [sec |-> Add64(t.sec, dsec), nsec |-> nsec]

(***************************************************************************)
(* The Log Streamer: collectLogsInPod.                                     *)
(***************************************************************************)
TerminatedPrefix == "previous terminated container "
TerminatedInPod == " in pod "
TerminatedNotFound == " not found"

\* terminatedContainerNotFoundRegex.MatchString(msg): somewhere in the
\* message the three phrases follow each other with at least one piece of
\* text between the first and the second and between the second and the
\* third.
MatchesTerminatedContainerNotFound(msg) ==
    \E p, q, r \in 1..Len(msg) :
        /\ msg[p] = TerminatedPrefix
        /\ msg[q] = TerminatedInPod
        /\ msg[r] = TerminatedNotFound
        /\ q >= p + 2
        /\ r >= q + 2

isTerminatedContainerNotFound(err) ==
    ~IsNil(err) /\ MatchesTerminatedContainerNotFound(Deref(err).msg)

IsEOF(err) == Deref(err).kind = "io.EOF"

\* The index of the first line feed of the text, 0 when it has none.
FirstNewline(data) ==
    IF \E k \in 1..Len(data) : data[k] = "\n"
    THEN CHOOSE k \in 1..Len(data) :
            data[k] = "\n" /\ \A m \in 1..(k - 1) : data[m] # "\n"
    ELSE 0

\* Mutant: the text returned together with a read error is not kept.
RECURSIVE ReadLoop_DropPartial(_, _, _)
ReadLoop_DropPartial(data, endErr, b) ==
    LET k == FirstNewline(data)
    IN  IF k = 0
        THEN [b |-> IF IsEOF(endErr) THEN b \o data ELSE b,
              readErr |-> IF IsEOF(endErr) THEN NoError ELSE endErr]
        ELSE ReadLoop_DropPartial(SubSeq(data, k + 1, Len(data)), endErr,
                                  b \o SubSeq(data, 1, k))

\* The read loop: r.ReadString('\n') returns the text up to and including
\* the next line feed, or what is left together with the error that ends
\* the stream; every piece is written to the builder b, and the loop ends
\* at the first error, which is kept unless it is io.EOF.
RECURSIVE ReadLoop(_, _, _)
ReadLoop(data, endErr, b) ==
    LET k == FirstNewline(data)
    IN  IF k = 0
        THEN [b |-> b \o data, readErr |-> IF IsEOF(endErr) THEN NoError ELSE endErr]
        ELSE ReadLoop(SubSeq(data, k + 1, Len(data)), endErr, b \o SubSeq(data, 1, k))

\* Mutant: the error of a stream that could not be opened is dropped.
ReadStream_DropOpenErr(env) ==
    IF IsNil(env.streamErr)
    THEN ReadLoop(env.stream.data, env.stream.endErr, <<>>)
    ELSE [b |-> <<>>, readErr |-> NoError]

\* What is read once the stream is open; a stream that could not be opened
\* (the tolerated open error) leaves the builder empty and its error as
\* the read error.
ReadStream(env) ==
    IF IsNil(env.streamErr)
    THEN ReadLoop(env.stream.data, env.stream.endErr, <<>>)
    ELSE [b |-> <<>>, readErr |-> env.streamErr]

\* fromDate of the result.
FromDate(opts, toDate, podInst) ==
    IF ~IsNil(opts.sinceTime) THEN Deref(opts.sinceTime)
    ELSE IF ~IsNil(opts.sinceSeconds)
    THEN TimeAdd(toDate, TimesSecond(Neg64(Deref(opts.sinceSeconds))))
    ELSE podInst.creationTimestamp

\* The map o handed to v.FillObject(o, "outputs").
LogOutputs(logs, fromDate, toDate, readErr) ==
    IF ~IsNil(readErr)
    THEN [logs |-> logs, info |-> [fromDate |-> fromDate, toDate |-> toDate],
          err |-> Deref(readErr).msg]
    ELSE [logs |-> logs, info |-> [fromDate |-> fromDate, toDate |-> toDate]]

\* The result of an operation: the error it returns and the fields it
\* filled into the value.
Returned(err) == [ret |-> err, filled |-> <<>>]
Filled(field, x) == [ret |-> NoError, filled |-> [f \in {field} |-> x]]

\* CollectLogsInPod.  v is the workflow value; env holds what the cluster
\* answers: the clientset construction, the pod Get, the log stream and the
\* clock.
CollectLogsInPod(v, env) ==
    IF ~HasField(v, "cluster") THEN Returned(Wrapf(FieldError("cluster"), "invalid cluster"))
    ELSE IF ~HasField(v, "namespace")
    THEN Returned(Wrapf(FieldError("namespace"), "invalid namespace"))
    ELSE IF ~HasField(v, "pod") THEN Returned(Wrapf(FieldError("pod"), "invalid pod name"))
    ELSE IF ~HasField(v, "options")
    THEN Returned(Wrapf(FieldError("options"), "invalid log options"))
    ELSE IF ~IsNil(v.options.unmarshalErr)
    THEN Returned(Wrapf(v.options.unmarshalErr, "invalid log options content"))
    ELSE IF ~IsNil(env.clientSetErr)
    THEN Returned(Wrapf(env.clientSetErr, "failed to create kubernetes clientset"))
    ELSE IF ~IsNil(env.podErr) THEN Returned(Wrapf(env.podErr, "failed to get pod"))
    ELSE IF ~IsNil(env.streamErr) /\ ~isTerminatedContainerNotFound(env.streamErr)
    THEN Returned(Wrapf(env.streamErr, "failed to get stream logs"))
    ELSE LET read == ReadStream(env)
             toDate == env.now
             fromDate == FromDate(v.options, toDate, env.pod)
         IN  Filled("outputs", LogOutputs(read.b, fromDate, toDate, read.readErr))

(***************************************************************************)
(* The Endpoint Deriver: generatorFromService.                             *)
(***************************************************************************)
ServiceTypeLoadBalancer == "LoadBalancer"
ServiceTypeNodePort == "NodePort"
ServiceTypeClusterIP == "ClusterIP"
ServiceTypeExternalName == "ExternalName"

\* The endpoint of a service port with the given host and port number;
\* AppProtocol and Path keep their zero values.
ServiceEndpointOf(service, protocol, host, port) ==
    [endpoint |-> [protocol |-> protocol, appProtocol |-> Nil, host |-> host,
                   path |-> "", port |-> port],
     ref |-> ObjectRef(service)]

\* Mutant: the IP is used only for an entry without a hostname.
LoadBalancerEntryEndpoints_ElseIf(service, port, entry) ==
    IF entry.hostname # ""
    THEN <<ServiceEndpointOf(service, port.protocol, entry.hostname, port.port)>>
    ELSE IF entry.ip # ""
    THEN <<ServiceEndpointOf(service, port.protocol, entry.ip, port.port)>>
    ELSE <<>>

\* What one load-balancer ingress entry appends for one port.
LoadBalancerEntryEndpoints(service, port, entry) ==
    (IF entry.hostname # ""
     THEN <<ServiceEndpointOf(service, port.protocol, entry.hostname, port.port)>>
     ELSE <<>>)
    \o
    (IF entry.ip # ""
     THEN <<ServiceEndpointOf(service, port.protocol, entry.ip, port.port)>>
     ELSE <<>>)

RECURSIVE LoadBalancerPortEndpoints(_, _, _)
LoadBalancerPortEndpoints(service, port, j) ==
    IF j > Len(service.lbIngress) THEN <<>>
    ELSE LoadBalancerEntryEndpoints(service, port, service.lbIngress[j])
            \o LoadBalancerPortEndpoints(service, port, j + 1)

RECURSIVE LoadBalancerEndpoints(_, _)
LoadBalancerEndpoints(service, i) ==
    IF i > Len(service.ports) THEN <<>>
    ELSE LoadBalancerPortEndpoints(service, service.ports[i], 1)
            \o LoadBalancerEndpoints(service, i + 1)

\* Mutant: the endpoint takes the service port instead of the node port.
NodePortEndpoints_UsePort(service) ==
    [i \in 1..Len(service.ports) |->
        ServiceEndpointOf(service, service.ports[i].protocol, "", service.ports[i].port)]

NodePortEndpoints(service) ==
    [i \in 1..Len(service.ports) |->
        ServiceEndpointOf(service, service.ports[i].protocol, "", service.ports[i].nodePort)]

generatorFromService(service) ==
    IF service.type = ServiceTypeLoadBalancer THEN LoadBalancerEndpoints(service, 1)
    ELSE IF service.type = ServiceTypeNodePort THEN NodePortEndpoints(service)
    ELSE <<>>

(***************************************************************************)
(* collectServiceEndpoints (GeneratorServiceEndpoints).                    *)
(*                                                                         *)
(* env.objects maps the key of a Get to what the cluster answers: the      *)
(* object, NotFound, or another error.  env.helm maps a HelmRelease to     *)
(* what its collector returns for services and for ingresses.              *)
(***************************************************************************)
HelmReleaseKind == "HelmRelease"
NetworkingGroupName == "networking.k8s.io"

GetKey(cluster, kind, namespace, name) ==
    [cluster |-> cluster, kind |-> kind, namespace |-> namespace, name |-> name]

NotFoundAnswer == [status |-> "notfound"]

ClusterGet(env, key) ==
    IF key \in DOMAIN env.objects THEN env.objects[key] ELSE NotFoundAnswer

GetError(key) == NewError("api", <<"get ", key.kind, " ", key.name, " failed">>)

\* findResource: the object is given its namespace and name and fetched; a
\* NotFound answer is no error and leaves the object as it was.
findResource(env, obj, kind, name, namespace, cluster) ==
    LET key == GetKey(cluster, kind, namespace, name)
        answer == ClusterGet(env, key)
        named == [obj EXCEPT !.namespace = namespace, !.name = name]
    IN  IF answer.status = "ok" THEN [err |-> NoError, obj |-> answer.obj]
        ELSE IF answer.status = "notfound" THEN [err |-> NoError, obj |-> named]
        ELSE [err |-> GetError(key), obj |-> named]

\* apiVersion "group/version" of a reference, "version" for the core group.
APIVersionOf(resource) ==
    IF resource.group = "" THEN resource.version
    ELSE resource.group \o "/" \o resource.version

\* A zero-valued object after SetGroupVersionKind(resource.GroupVersionKind()).
TypedZero(resource) ==
    [ZeroMeta EXCEPT !.kind = resource.kind, !.apiVersion = APIVersionOf(resource)]

ZeroService(resource) == TypedZero(resource) @@ [type |-> "", ports |-> <<>>, lbIngress |-> <<>>]

ZeroIngress(resource) ==
    TypedZero(resource) @@ [annotations |-> <<>>, tls |-> <<>>, rules |-> <<>>]

ZeroApplication == ZeroMeta @@ [appliedResources |-> <<>>]

\* isResourceInTargetCluster(filter, resource)
isResourceInTargetCluster(filter, resource) ==
    /\ filter.cluster = "" \/ filter.cluster = resource.cluster
    /\ filter.clusterNamespace = "" \/ filter.clusterNamespace = resource.namespace
    /\ filter.components = {} \/ resource.component \in filter.components

\* The key findResource fetches for an applied resource.
KeyOfResource(resource) ==
    GetKey(resource.cluster, resource.kind, resource.namespace, resource.name)

RECURSIVE ServicesEndpoints(_, _)
ServicesEndpoints(services, i) ==
    IF i > Len(services) THEN <<>>
    ELSE generatorFromService(services[i]) \o ServicesEndpoints(services, i + 1)

RECURSIVE IngressesEndpoints(_, _, _)
IngressesEndpoints(ingresses, intSize, i) ==
    IF i > Len(ingresses) THEN <<>>
    ELSE generatorFromIngress(ingresses[i], intSize)
            \o IngressesEndpoints(ingresses, intSize, i + 1)

\* Mutant: the API group of the ingress is not looked at.
IsSupportedIngress_AnyGroup(resource) ==
    resource.version = "v1beta1" \/ resource.version = "v1"

\* The test of an applied Ingress: networking group, version v1beta1 or v1.
IsSupportedIngress(resource) ==
    /\ resource.group = NetworkingGroupName
    /\ resource.version = "v1beta1" \/ resource.version = "v1"

\* The case "Ingress" of the loop body.
IngressResourceEndpoints(env, resource) ==
    IF IsSupportedIngress(resource)
    THEN LET found == findResource(env, ZeroIngress(resource), "Ingress", resource.name,
                                   resource.namespace, resource.cluster)
         IN  IF ~IsNil(found.err) THEN <<>>
             ELSE generatorFromIngress(found.obj, env.intSize)
    ELSE <<>>

\* The case "Service" of the loop body.
ServiceResourceEndpoints(env, resource) ==
    LET found == findResource(env, ZeroService(resource), "Service", resource.name,
                              resource.namespace, resource.cluster)
    IN  IF ~IsNil(found.err) THEN <<>> ELSE generatorFromService(found.obj)

HelmKey(resource) ==
    [cluster |-> resource.cluster, namespace |-> resource.namespace, name |-> resource.name]

\* Mutant: a failed service collection skips the release's ingresses.
HelmResourceEndpoints_SkipAfterError(env, resource) ==
    LET collected == env.helm[HelmKey(resource)]
    IN  IF ~IsNil(collected.services.err) THEN <<>>
        ELSE ServicesEndpoints(collected.services.list, 1)
                \o IngressesEndpoints(collected.ingress.list, env.intSize, 1)

\* The case HelmRelease of the loop body: the endpoints of the collected
\* services, then those of the collected ingresses; an error of either
\* collection is logged and what it returned is still used.
HelmResourceEndpoints(env, resource) ==
    LET collected == env.helm[HelmKey(resource)]
    IN  ServicesEndpoints(collected.services.list, 1)
            \o IngressesEndpoints(collected.ingress.list, env.intSize, 1)

\* What one applied resource appends to serviceEndpoints.
ResourceEndpoints(filter, env, resource) ==
    IF ~isResourceInTargetCluster(filter, resource) THEN <<>>
    ELSE IF resource.kind = "Ingress" THEN IngressResourceEndpoints(env, resource)
    ELSE IF resource.kind = "Service" THEN ServiceResourceEndpoints(env, resource)
    ELSE IF resource.kind = HelmReleaseKind THEN HelmResourceEndpoints(env, resource)
    ELSE <<>>

\* Mutant: the endpoints of a resource are put in front of those already
\* gathered.
RECURSIVE AppliedEndpoints_Prepend(_, _, _, _)
AppliedEndpoints_Prepend(filter, env, applied, i) ==
    IF i > Len(applied) THEN <<>>
    ELSE AppliedEndpoints_Prepend(filter, env, applied, i + 1)
            \o ResourceEndpoints(filter, env, applied[i])

RECURSIVE AppliedEndpoints(_, _, _, _)
AppliedEndpoints(filter, env, applied, i) ==
    IF i > Len(applied) THEN <<>>
    ELSE ResourceEndpoints(filter, env, applied[i])
            \o AppliedEndpoints(filter, env, applied, i + 1)

GeneratorServiceEndpoints(v, env) ==
    IF ~HasField(v, "app") THEN Returned(FieldError("app"))
    ELSE IF ~IsNil(v.app.unmarshalErr) THEN Returned(v.app.unmarshalErr)
    ELSE LET opt == v.app
             found == findResource(env, ZeroApplication, "Application", opt.name,
                                   opt.namespace, "")
         IN  IF ~IsNil(found.err) THEN Returned(QueryAppFailure(found.err))
             ELSE Filled("list",
                         AppliedEndpoints(opt.filter, env, found.obj.appliedResources, 1))

\* The keys of the Gets one applied resource makes findResource issue.
ResourceGets(filter, resource) ==
    IF ~isResourceInTargetCluster(filter, resource) THEN <<>>
    ELSE IF resource.kind = "Ingress"
    THEN IF IsSupportedIngress(resource) THEN <<KeyOfResource(resource)>> ELSE <<>>
    ELSE IF resource.kind = "Service" THEN <<KeyOfResource(resource)>>
    ELSE <<>>

RECURSIVE AppliedGets(_, _, _)
AppliedGets(filter, applied, i) ==
    IF i > Len(applied) THEN <<>>
    ELSE ResourceGets(filter, applied[i]) \o AppliedGets(filter, applied, i + 1)

\* The keys of the Gets a call of GeneratorServiceEndpoints issues through
\* findResource, in order: the application, then the applied resources.
FetchedKeys(v, env) ==
    IF ~HasField(v, "app") \/ ~IsNil(v.app.unmarshalErr) THEN <<>>
    ELSE LET opt == v.app
             found == findResource(env, ZeroApplication, "Application", opt.name,
                                   opt.namespace, "")
         IN  <<GetKey("", "Application", opt.namespace, opt.name)>>
                \o (IF ~IsNil(found.err) THEN <<>>
                    ELSE AppliedGets(opt.filter, found.obj.appliedResources, 1))

(***************************************************************************)
(* The list operations.  env.collected is what the collaborator (the       *)
(* application collector, the pod collector, the event List) returns: a    *)
(* list and an error.                                                      *)
(***************************************************************************)
ListResourcesInApp(v, env) ==
    IF ~HasField(v, "app") THEN Returned(FieldError("app"))
    ELSE IF ~IsNil(v.app.unmarshalErr) THEN Returned(v.app.unmarshalErr)
    ELSE IF ~IsNil(env.collected.err) THEN Filled("err", Deref(env.collected.err).msg)
    ELSE Filled("list", env.collected.list)

CollectPods(v, env) ==
    IF ~HasField(v, "value") THEN Returned(FieldError("value"))
    ELSE IF ~HasField(v, "cluster") THEN Returned(FieldError("cluster"))
    ELSE IF ~IsNil(v.value.unmarshalErr) THEN Returned(v.value.unmarshalErr)
    ELSE IF ~IsNil(env.collected.err) THEN Filled("err", Deref(env.collected.err).msg)
    ELSE Filled("list", env.collected.list)

\* Mutant: a failed listing is reported as an empty list.
SearchEvents_SwallowError(v, env) ==
    IF ~HasField(v, "value") THEN Returned(FieldError("value"))
    ELSE IF ~HasField(v, "cluster") THEN Returned(FieldError("cluster"))
    ELSE IF ~IsNil(v.value.unmarshalErr) THEN Returned(v.value.unmarshalErr)
    ELSE Filled("list", env.collected.list)

SearchEvents(v, env) ==
    IF ~HasField(v, "value") THEN Returned(FieldError("value"))
    ELSE IF ~HasField(v, "cluster") THEN Returned(FieldError("cluster"))
    ELSE IF ~IsNil(v.value.unmarshalErr) THEN Returned(v.value.unmarshalErr)
    ELSE IF ~IsNil(env.collected.err) THEN Filled("err", Deref(env.collected.err).msg)
    ELSE Filled("list", env.collected.list)

(***************************************************************************)
(* Inputs.                                                                 *)
(***************************************************************************)
MaxPorts == 2
MaxLBEntries == 2
MaxRules == 2
MaxTLS == 2

SeqsUpTo(S, n) == UNION {[1..k -> S] : k \in 0..n}

ServicePorts ==
    { [protocol |-> "TCP", port |-> 80, nodePort |-> 30080],
      [protocol |-> "TCP", port |-> 443, nodePort |-> 0],
      [protocol |-> "UDP", port |-> 53, nodePort |-> 30053],
      [protocol |-> "TCP", port |-> 0, nodePort |-> 0] }

LBEntries == [hostname : {"", "lb.example.com"}, ip : {"", "10.0.0.1"}]

ServiceTypes ==
    {ServiceTypeLoadBalancer, ServiceTypeNodePort, ServiceTypeClusterIP,
     ServiceTypeExternalName, ""}

MakeService(name, type, ports, lb) ==
    ObjectMeta("Service", "v1", name) @@ [type |-> type, ports |-> ports, lbIngress |-> lb]

Services ==
    { MakeService("web", t, ps, lb) :
        t \in ServiceTypes, ps \in SeqsUpTo(ServicePorts, MaxPorts),
        lb \in SeqsUpTo(LBEntries, MaxLBEntries) }

(***************************************************************************)
(* Specification of the Endpoint Deriver: Init draws a service, or an      *)
(* ingress and the platform's int width; one action per function applies   *)
(* it.                                                                     *)
(***************************************************************************)
HostA == "a.example.com"
HostB == "b.example.com"

IngressPaths == {<<"/">>, <<"/", "/api">>}

IngressRules ==
    [host : {"", HostA, HostB},
     http : {Nil} \cup {Ptr([paths |-> ps]) : ps \in IngressPaths}]

IngressTLSEntries == [hosts : {<<>>, <<HostA>>, <<HostB>>, <<HostA, HostB>>}]

\* Values of a port annotation, as text.
AnnotationValues ==
    { <<"8", "4", "4", "3">>,  \* "8443"
      <<"8", "0", "8", "0">>,  \* "8080"
      <<"0">>,  \* "0"
      <<"-", "1">>,  \* "-1"
      <<"8", "x">>,  \* "8x"
      <<>>,  \* ""
      <<"+", "8", "1">>,  \* "+81"
      <<"2", "1", "4", "7", "4", "8", "3", "6", "4", "8">>,  \* "2147483648"
      <<"4", "2", "9", "4", "9", "6", "7", "2", "9", "6">>,  \* "4294967296"
      <<"4", "2", "9", "4", "9", "6", "7", "3", "7", "6">>,  \* "4294967376"
      <<"9", "2", "2", "3", "3", "7", "2", "0", "3", "6", "8", "5", "4", "7", "7", "5", "8", "0", "8">> }  \* "9223372036854775808"

AnnotationKeys == {AnnoIngressControllerHTTPSPort, AnnoIngressControllerHTTPPort}

\* Every annotation map over the two port annotations with values in V.
AnnotationMaps(V) == UNION {[K -> V] : K \in SUBSET AnnotationKeys}

IntSizes == {32, 64}

MakeIngress(name, annotations, tls, rules) ==
    ObjectMeta("Ingress", "networking.k8s.io/v1beta1", name)
        @@ [annotations |-> annotations, tls |-> tls, rules |-> rules]

\* Ingresses of every shape, with no annotation or both port annotations.
ShapeIngresses ==
    { MakeIngress("ing", a, tls, rules) :
        a \in {[k \in K |-> <<"8", "4", "4", "3">>] : K \in {{}, AnnotationKeys}},
        tls \in SeqsUpTo(IngressTLSEntries, MaxTLS),
        rules \in SeqsUpTo(IngressRules, MaxRules) }

\* Ingresses of few shapes, with every annotation map.
AnnotatedIngresses ==
    { MakeIngress("ing", a, tls, rules) :
        a \in AnnotationMaps(AnnotationValues),
        tls \in {<<>>, <<[hosts |-> <<HostA>>]>>, <<[hosts |-> <<>>]>>},
        rules \in { <<[host |-> HostA, http |-> Ptr([paths |-> <<"/">>])]>>,
                    <<[host |-> HostA, http |-> Ptr([paths |-> <<"/">>])],
                      [host |-> HostB, http |-> Ptr([paths |-> <<"/", "/api">>])]>> } }

NoOutput == [list |-> <<>>]

DeriverArgs ==
    [service : Services]
        \cup [ingress : ShapeIngresses, intSize : {64}]
        \cup [ingress : AnnotatedIngresses, intSize : IntSizes]

InitDeriver ==
    /\ op = "init"
    /\ arg \in DeriverArgs
    /\ out = NoOutput
    /\ WebhookUntouched

CallGeneratorFromService ==
    /\ op = "init"
    /\ "service" \in DOMAIN arg
    /\ op' = "generatorFromService"
    /\ out' = [list |-> generatorFromService(arg.service)]
    /\ UNCHANGED <<arg, webhookVars>>

CallGeneratorFromIngress ==
    /\ op = "init"
    /\ "ingress" \in DOMAIN arg
    /\ op' = "generatorFromIngress"
    /\ out' = [list |-> generatorFromIngress(arg.ingress, arg.intSize)]
    /\ UNCHANGED <<arg, webhookVars>>

NextDeriver == CallGeneratorFromService \/ CallGeneratorFromIngress

SpecDeriver == InitDeriver /\ [][NextDeriver]_vars

(***************************************************************************)
(* Inputs of the provider's operations.                                    *)
(***************************************************************************)
MaxLogLen == 3
MaxApplied == 2

SomeError(text) == NewError("other", <<text>>)

\* The value with the given fields, and the values that miss one of them.
ValuesMissingOne(fields) ==
    {fields} \cup {[k \in DOMAIN fields \ {m} |-> fields[k]] : m \in DOMAIN fields}

\* --- collectLogsInPod
Second(n) == [sec |-> Word(n), nsec |-> 0]

NowTimes == {Second(1700000000), [sec |-> Word(1700000000), nsec |-> 250000000]}
PodCreated == Second(1690000000)
SinceTimeGiven == Second(1695000000)

\* 9223372036, the most seconds whose nanoseconds fit an int64, and the
\* next number.
MaxWholeSeconds == <<32004, 9665, 2, 0>>
MaxWholeSecondsPlusOne == <<32005, 9665, 2, 0>>

SinceSecondsGiven == {Word(1), Word(60), MaxWholeSeconds, MaxWholeSecondsPlusOne}

LogOptions ==
    [sinceTime : {Nil, Ptr(SinceTimeGiven)},
     sinceSeconds : {Nil} \cup {Ptr(n) : n \in SinceSecondsGiven},
     unmarshalErr : {NoError}]
    \cup
    {[sinceTime |-> Nil, sinceSeconds |-> Nil,
      unmarshalErr |-> SomeError("cannot unmarshal string into int64")]}

LogValues ==
    UNION { ValuesMissingOne([cluster |-> "c1", namespace |-> "default",
                              pod |-> "pod-0", options |-> o]) : o \in LogOptions }

ErrEOF == NewError("io.EOF", <<"EOF">>)
ErrReset == NewError("other", <<"connection reset by peer">>)

LogStreams == [data : SeqsUpTo({"a", "\n"}, MaxLogLen), endErr : {ErrEOF, ErrReset}]

\* Errors of opening the stream: the recognized condition, plain and
\* inside a longer message, and errors that are not the condition.
RecognizedStreamErrors ==
    { NewError("api", <<TerminatedPrefix, "web", TerminatedInPod, "pod-0",
                        TerminatedNotFound>>),
      NewError("api", <<"the server rejected our request: ", TerminatedPrefix, "web",
                        TerminatedInPod, "pod-0", TerminatedNotFound, " (get pods pod-0)">>) }

OtherStreamErrors ==
    { NewError("api", <<TerminatedPrefix, TerminatedInPod, "pod-0", TerminatedNotFound>>),
      NewError("api", <<"container ", "web", " is not valid for pod ", "pod-0">>) }

EmptyStream == [data |-> <<>>, endErr |-> ErrEOF]

LogEnvs ==
    { [clientSetErr |-> ce, podErr |-> pe, pod |-> [creationTimestamp |-> PodCreated],
       streamErr |-> so.streamErr, stream |-> so.stream, now |-> now] :
        ce \in {NoError, SomeError("invalid configuration")},
        pe \in {NoError, NewError("api", <<"pods ", "pod-0", TerminatedNotFound>>)},
        so \in {[streamErr |-> NoError, stream |-> st] : st \in LogStreams}
                \cup {[streamErr |-> e, stream |-> EmptyStream] :
                        e \in RecognizedStreamErrors \cup OtherStreamErrors},
        now \in NowTimes }

LogCalls == [target : {"collectLogsInPod"}, v : LogValues, env : LogEnvs]

\* --- collectServiceEndpoints
AppliedResource(cluster, component, group, version, kind, namespace, name) ==
    [cluster |-> cluster, component |-> component, group |-> group, version |-> version,
     kind |-> kind, namespace |-> namespace, name |-> name]

WebRef == AppliedResource("", "frontend", "", "v1", "Service", "default", "web")
DBRef == AppliedResource("c1", "backend", "", "v1", "Service", "prod", "db")
IngRef ==
    AppliedResource("c1", "frontend", NetworkingGroupName, "v1beta1", "Ingress", "default", "ing")
OldIngRef ==
    AppliedResource("", "backend", "extensions", "v1beta1", "Ingress", "default", "old-ing")
AlphaIngRef ==
    AppliedResource("", "frontend", NetworkingGroupName, "v1alpha1", "Ingress", "default",
                    "alpha-ing")
RelRef ==
    AppliedResource("", "backend", "helm.toolkit.fluxcd.io", "v2beta1", HelmReleaseKind,
                    "default", "rel")
DeployRef == AppliedResource("", "frontend", "apps", "v1", "Deployment", "default", "web")

AppliedResources == {WebRef, DBRef, IngRef, OldIngRef, AlphaIngRef, RelRef, DeployRef}

KeyOf(resource) == GetKey(resource.cluster, resource.kind, resource.namespace, resource.name)

AppKey == GetKey("", "Application", "default", "app")

WebService ==
    MakeService("web", ServiceTypeLoadBalancer,
                <<[protocol |-> "TCP", port |-> 80, nodePort |-> 30080],
                  [protocol |-> "TCP", port |-> 443, nodePort |-> 30443]>>,
                <<[hostname |-> "lb.example.com", ip |-> ""],
                  [hostname |-> "", ip |-> "10.0.0.1"]>>)

DBService ==
    [MakeService("db", ServiceTypeNodePort,
                 <<[protocol |-> "TCP", port |-> 5432, nodePort |-> 30432]>>, <<>>)
        EXCEPT !.namespace = "prod"]

HelmService ==
    MakeService("rel-svc", ServiceTypeNodePort,
                <<[protocol |-> "TCP", port |-> 80, nodePort |-> 30081]>>, <<>>)

OneRuleIngress(name, host) ==
    MakeIngress(name, <<>>, <<>>, <<[host |-> host, http |-> Ptr([paths |-> <<"/">>])]>>)

Ing ==
    MakeIngress("ing", <<>>, <<>>,
                <<[host |-> HostB, http |-> Ptr([paths |-> <<"/", "/api">>])],
                  [host |-> HostA, http |-> Ptr([paths |-> <<"/">>])]>>)
OldIng == OneRuleIngress("old-ing", "old.example.com")
AlphaIng == OneRuleIngress("alpha-ing", "alpha.example.com")
HelmIng == OneRuleIngress("rel-ing", HostB)

Ok(obj) == [status |-> "ok", obj |-> obj]
Failing == [status |-> "error"]

MakeApplication(applied) ==
    ObjectMeta("Application", "core.oam.dev/v1beta1", "app") @@ [appliedResources |-> applied]

\* What the clusters hold: the application with its applied resources,
\* and each object present, missing or failing to be fetched.
ClusterObjects ==
    { (AppKey :> Ok(MakeApplication(applied))) @@ (KeyOf(WebRef) :> web)
        @@ (KeyOf(DBRef) :> db) @@ (KeyOf(IngRef) :> ing) @@ (KeyOf(OldIngRef) :> Ok(OldIng))
        @@ (KeyOf(AlphaIngRef) :> Ok(AlphaIng)) :
        applied \in SeqsUpTo(AppliedResources, MaxApplied),
        web \in {Ok(WebService), NotFoundAnswer, Failing},
        db \in {Ok(DBService), Failing},
        ing \in {Ok(Ing), NotFoundAnswer, Failing} }
    \cup
    { (AppKey :> app) @@ (KeyOf(WebRef) :> Ok(WebService)) : app \in {NotFoundAnswer, Failing} }

Collected(list) == [list |-> list, err |-> NoError]
CollectFailed(text) == [list |-> <<>>, err |-> SomeError(text)]

HelmAnswers ==
    [services : {Collected(<<HelmService>>), CollectFailed("list services failed")},
     ingress : {Collected(<<HelmIng>>), CollectFailed("list ingresses failed")}]

\* The clusters of this operation run a 64-bit build.
EndpointEnvs ==
    [objects : ClusterObjects, helm : [{HelmKey(RelRef)} -> HelmAnswers], intSize : {64}]

Filters ==
    { [cluster |-> "", clusterNamespace |-> "", components |-> {}],
      [cluster |-> "c1", clusterNamespace |-> "", components |-> {}],
      [cluster |-> "", clusterNamespace |-> "default", components |-> {}],
      [cluster |-> "", clusterNamespace |-> "", components |-> {"frontend"}] }

AppOptions ==
    [name : {"app"}, namespace : {"default"}, filter : Filters, unmarshalErr : {NoError}]
    \cup
    {[name |-> "", namespace |-> "", filter |-> [cluster |-> "", clusterNamespace |-> "",
                                                components |-> {}],
      unmarshalErr |-> SomeError("cannot unmarshal number into string")]}

AppValues == UNION {ValuesMissingOne([app |-> o]) : o \in AppOptions}

EndpointCalls == [target : {"collectServiceEndpoints"}, v : AppValues, env : EndpointEnvs]

\* --- listResourcesInApp, collectPods, searchEvents
Collections ==
    { Collected(<<>>), Collected(<<"item-1", "item-2">>),
      CollectFailed("the server is unavailable"),
      [list |-> <<"item-1">>, err |-> SomeError("the server is unavailable")] }

ObjectValues ==
    ValuesMissingOne([value |-> [unmarshalErr |-> NoError], cluster |-> "c1"])
    \cup {[value |-> [unmarshalErr |-> SomeError("cannot unmarshal")], cluster |-> "c1"]}

ListCalls ==
    [target : {"listResourcesInApp"}, v : AppValues, env : [collected : Collections]]
    \cup
    [target : {"collectPods", "searchEvents"}, v : ObjectValues,
     env : [collected : Collections]]

(***************************************************************************)
(* Specification of the provider: Init draws one call (the operation, its  *)
(* value and what the clusters answer), one action per registered          *)
(* operation runs it.                                                      *)
(***************************************************************************)
NoResult == [ret |-> NoError, filled |-> <<>>]

InitProvider ==
    /\ op = "init"
    /\ arg \in LogCalls \cup EndpointCalls \cup ListCalls
    /\ out = NoResult
    /\ WebhookUntouched

CallListResourcesInApp ==
    /\ op = "init"
    /\ arg.target = "listResourcesInApp"
    /\ op' = "listResourcesInApp"
    /\ out' = ListResourcesInApp(arg.v, arg.env)
    /\ UNCHANGED <<arg, webhookVars>>

CallCollectPods ==
    /\ op = "init"
    /\ arg.target = "collectPods"
    /\ op' = "collectPods"
    /\ out' = CollectPods(arg.v, arg.env)
    /\ UNCHANGED <<arg, webhookVars>>

CallSearchEvents ==
    /\ op = "init"
    /\ arg.target = "searchEvents"
    /\ op' = "searchEvents"
    /\ out' = SearchEvents(arg.v, arg.env)
    /\ UNCHANGED <<arg, webhookVars>>

CallCollectLogsInPod ==
    /\ op = "init"
    /\ arg.target = "collectLogsInPod"
    /\ op' = "collectLogsInPod"
    /\ out' = CollectLogsInPod(arg.v, arg.env)
    /\ UNCHANGED <<arg, webhookVars>>

CallCollectServiceEndpoints ==
    /\ op = "init"
    /\ arg.target = "collectServiceEndpoints"
    /\ op' = "collectServiceEndpoints"
    /\ out' = GeneratorServiceEndpoints(arg.v, arg.env)
                @@ [gets |-> FetchedKeys(arg.v, arg.env)]
    /\ UNCHANGED <<arg, webhookVars>>

NextProvider ==
    \/ CallListResourcesInApp
    \/ CallCollectPods
    \/ CallSearchEvents
    \/ CallCollectLogsInPod
    \/ CallCollectServiceEndpoints

SpecProvider == InitProvider /\ [][NextProvider]_vars

(***************************************************************************)
(* Claims about generatorFromService (SpecDeriver).                        *)
(***************************************************************************)
CalledFromService == op = "generatorFromService"

\* How many endpoints an entry contributes: one per address it carries.
EntryAddresses(entry) ==
    (IF entry.hostname # "" THEN <<entry.hostname>> ELSE <<>>)
    \o (IF entry.ip # "" THEN <<entry.ip>> ELSE <<>>)

RECURSIVE AddressesBefore(_, _)
AddressesBefore(lb, j) ==
    IF j <= 1 THEN 0
    ELSE AddressesBefore(lb, j - 1) + Len(EntryAddresses(lb[j - 1]))

\* The host the claim C1 gives a (port, entry) pair: the hostname first,
\* the IP only without a hostname.
ClaimedHost(entry) == IF entry.hostname # "" THEN entry.hostname ELSE entry.ip

\* C1 as stated: a LoadBalancer service yields exactly one endpoint per
\* (port, load-balancer entry) pair, in port-major order, whose host is the
\* entry's hostname if it has one and otherwise its IP, and whose port and
\* protocol are the service port's; so never more than ports x entries.
C1_OnePerPair ==
    (CalledFromService /\ arg.service.type = ServiceTypeLoadBalancer) =>
        LET svc == arg.service
            np == Len(svc.ports)
            ne == Len(svc.lbIngress)
        IN  /\ Len(out.list) = np * ne
            /\ \A i \in 1..np, j \in 1..ne :
                 out.list[(i - 1) * ne + j] =
                    ServiceEndpointOf(svc, svc.ports[i].protocol,
                                      ClaimedHost(svc.lbIngress[j]), svc.ports[i].port)

\* C1 amended: per (port, entry) pair, in port-major order, the service
\* yields one endpoint for the entry's hostname if it has one, followed by
\* one for its IP if it has one (two for an entry with both, none for an
\* entry with neither), each with the service port's Port and Protocol.
C1_OnePerAddress ==
    (CalledFromService /\ arg.service.type = ServiceTypeLoadBalancer) =>
        LET svc == arg.service
            np == Len(svc.ports)
            ne == Len(svc.lbIngress)
            perPort == AddressesBefore(svc.lbIngress, ne + 1)
        IN  /\ Len(out.list) = np * perPort
            /\ \A i \in 1..np, j \in 1..ne :
                 LET addrs == EntryAddresses(svc.lbIngress[j])
                     base == (i - 1) * perPort + AddressesBefore(svc.lbIngress, j)
                 IN  \A k \in 1..Len(addrs) :
                        out.list[base + k] =
                            ServiceEndpointOf(svc, svc.ports[i].protocol, addrs[k],
                                              svc.ports[i].port)

\* A LoadBalancer service with an entry carrying both a hostname and an IP
\* has been converted, and yielded more endpoints than (port, entry) pairs.
C1_Witness ==
    /\ CalledFromService
    /\ arg.service.type = ServiceTypeLoadBalancer
    /\ \E j \in 1..Len(arg.service.lbIngress) :
          arg.service.lbIngress[j].hostname # "" /\ arg.service.lbIngress[j].ip # ""
    /\ Len(out.list) > Len(arg.service.ports) * Len(arg.service.lbIngress)

(***************************************************************************)
(* Claims about generatorFromIngress (SpecDeriver).                        *)
(***************************************************************************)
CalledFromIngress == op = "generatorFromIngress"

\* The paths of a rule that has an HTTP section, none otherwise.
RulePaths(rule) == IF IsNil(rule.http) THEN <<>> ELSE Deref(rule.http).paths

\* The paths the claim C3 lets a rule contribute: none for an empty host.
ClaimedRulePaths(rule) == IF rule.host = "" THEN <<>> ELSE RulePaths(rule)

RECURSIVE PathsBefore(_, _)
PathsBefore(rules, i) ==
    IF i <= 1 THEN 0 ELSE PathsBefore(rules, i - 1) + Len(RulePaths(rules[i - 1]))

RECURSIVE ClaimedPathsBefore(_, _)
ClaimedPathsBefore(rules, i) ==
    IF i <= 1 THEN 0
    ELSE ClaimedPathsBefore(rules, i - 1) + Len(ClaimedRulePaths(rules[i - 1]))

\* C3 as stated: a rule with an empty host or without an HTTP section
\* contributes no endpoint; every other rule contributes one endpoint per
\* path, with the rule's host and that path.
C3_NonEmptyHostOnly ==
    CalledFromIngress =>
        LET rules == arg.ingress.rules
        IN  /\ Len(out.list) = ClaimedPathsBefore(rules, Len(rules) + 1)
            /\ \A i \in 1..Len(rules) :
                 \A j \in 1..Len(ClaimedRulePaths(rules[i])) :
                    LET e == out.list[ClaimedPathsBefore(rules, i) + j].endpoint
                    IN  e.host = rules[i].host /\ e.path = RulePaths(rules[i])[j]

\* C3 amended: a rule contributes no endpoint exactly when its HTTP section
\* is absent; every rule with an HTTP section, also one whose host is the
\* empty string, contributes one endpoint per path, in rule order then path
\* order, with host = the rule's host (possibly empty) and path = that path.
C3_EveryHTTPRule ==
    CalledFromIngress =>
        LET rules == arg.ingress.rules
        IN  /\ Len(out.list) = PathsBefore(rules, Len(rules) + 1)
            /\ \A i \in 1..Len(rules) :
                 \A j \in 1..Len(RulePaths(rules[i])) :
                    LET e == out.list[PathsBefore(rules, i) + j].endpoint
                    IN  e.host = rules[i].host /\ e.path = RulePaths(rules[i])[j]

\* An ingress with a rule that has paths but an empty host has been
\* converted, and an endpoint with the empty host came out.
C3_Witness ==
    /\ CalledFromIngress
    /\ \E i \in 1..Len(arg.ingress.rules) :
          arg.ingress.rules[i].host = "" /\ Len(RulePaths(arg.ingress.rules[i])) = 2
    /\ \E i \in 1..Len(arg.ingress.rules) : IsNil(arg.ingress.rules[i].http)
    /\ \E k \in 1..Len(out.list) : out.list[k].endpoint.host = ""

\* Some TLS entry lists the host, or some TLS entry lists no host at all.
CoveredByTLS(tls, host) ==
    \E t \in 1..Len(tls) :
        \/ Len(tls[t].hosts) = 0
        \/ \E k \in 1..Len(tls[t].hosts) : tls[t].hosts[k] = host

\* The permutations of 1..n.
Permutations1(n) == {f \in [1..n -> 1..n] : \A a, b \in 1..n : f[a] = f[b] => a = b}

\* C5: every endpoint of a rule has appProtocol "https" if and only if some
\* TLS entry lists the rule's host or has an empty host list, and "http"
\* otherwise; and reordering the TLS entries changes no endpoint.
C5_AppProtocol ==
    CalledFromIngress =>
        LET ing == arg.ingress
            rules == ing.rules
        IN  /\ \A i \in 1..Len(rules) :
                 \A j \in 1..Len(RulePaths(rules[i])) :
                    out.list[PathsBefore(rules, i) + j].endpoint.appProtocol =
                        Ptr(IF CoveredByTLS(ing.tls, rules[i].host) THEN "https" ELSE "http")
            /\ \A f \in Permutations1(Len(ing.tls)) :
                 generatorFromIngress(
                    [ing EXCEPT !.tls = [t \in 1..Len(ing.tls) |-> ing.tls[f[t]]]],
                    arg.intSize) = out.list

\* An ingress whose first TLS entry does not cover host a and whose second
\* does, with a rule for a and a rule for a host no TLS entry covers, has
\* been converted: the endpoint of a is "https", the other one "http".
C5_Witness ==
    /\ CalledFromIngress
    /\ arg.ingress.tls = <<[hosts |-> <<HostB>>], [hosts |-> <<HostA>>]>>
    /\ Len(arg.ingress.rules) = 2
    /\ arg.ingress.rules[1].host = HostA
    /\ arg.ingress.rules[2].host = ""
    /\ Len(out.list) = 2
    /\ out.list[1].endpoint.appProtocol = Ptr("https")
    /\ out.list[2].endpoint.appProtocol = Ptr("http")

\* The word of an int32.
WordOfInt32(p) ==
    IF p >= 0 THEN Word(p) ELSE Sub64(Neg64(Word(-(p + 1))), Word(1))

\* The port the claim C6 gives an endpoint: the annotation's value when the
\* annotation of the endpoint's own protocol is present and parses as a
\* positive integer, else the protocol's default.
ClaimedPort(ingress, appProtocol, intSize) ==
    LET key == IF appProtocol = "https" THEN AnnoIngressControllerHTTPSPort
               ELSE AnnoIngressControllerHTTPPort
        default == IF appProtocol = "https" THEN Word(443) ELSE Word(80)
        parsed == Atoi(ingress.annotations[key], intSize)
    IN  IF key \in DOMAIN ingress.annotations /\ parsed.err = NULL /\ IsPositive(parsed.val)
        THEN parsed.val
        ELSE default

\* C6 as stated: the port of every ingress endpoint is the value of the
\* port annotation of its own appProtocol when that annotation is present
\* and parses as a positive integer, and the default (443 or 80) otherwise.
C6_PortIsAnnotationValue ==
    CalledFromIngress =>
        \A k \in 1..Len(out.list) :
            WordOfInt32(out.list[k].endpoint.port) =
                ClaimedPort(arg.ingress, Deref(out.list[k].endpoint.appProtocol), arg.intSize)

\* C7 as stated: every endpoint either function produces has a port of at
\* least 1.
C7_PortPositive ==
    (CalledFromIngress \/ CalledFromService) =>
        \A k \in 1..Len(out.list) : out.list[k].endpoint.port >= 1

(***************************************************************************)
(* Claims about collectLogsInPod (SpecProvider).                           *)
(***************************************************************************)
CalledLogs == op = "collectLogsInPod"

\* The call got as far as opening the log stream.
LogsReachedStream ==
    /\ CalledLogs
    /\ DOMAIN arg.v = {"cluster", "namespace", "pod", "options"}
    /\ IsNil(arg.v.options.unmarshalErr)
    /\ IsNil(arg.env.clientSetErr)
    /\ IsNil(arg.env.podErr)

LogsWroteOutputs == CalledLogs /\ IsNil(out.ret) /\ DOMAIN out.filled = {"outputs"}

\* C2 as stated: when opening the stream fails with the recognized
\* "previous terminated container ... not found" condition, the call
\* succeeds and 'outputs' has empty logs and no 'err' field.
C2_NoErrRecorded ==
    (LogsReachedStream /\ arg.env.streamErr \in RecognizedStreamErrors) =>
        /\ LogsWroteOutputs
        /\ out.filled.outputs.logs = <<>>
        /\ "err" \notin DOMAIN out.filled.outputs

\* C2 amended: when opening the stream fails with the recognized condition,
\* the call does not fail: it writes 'outputs' with empty logs and the time
\* window, and records the open error's message as the 'err' field of
\* 'outputs'.
C2_ErrRecorded ==
    (LogsReachedStream /\ arg.env.streamErr \in RecognizedStreamErrors) =>
        /\ LogsWroteOutputs
        /\ out.filled.outputs.logs = <<>>
        /\ out.filled.outputs.info.toDate = arg.env.now
        /\ "err" \in DOMAIN out.filled.outputs
        /\ out.filled.outputs.err = Deref(arg.env.streamErr).msg

\* The stream could not be opened for the recognized condition, inside a
\* longer message, and the call wrote empty logs together with 'err'.
C2_Witness ==
    /\ LogsReachedStream
    /\ arg.env.streamErr \in RecognizedStreamErrors
    /\ Deref(arg.env.streamErr).msg[1] # TerminatedPrefix
    /\ LogsWroteOutputs
    /\ out.filled.outputs.logs = <<>>
    /\ "err" \in DOMAIN out.filled.outputs

\* C8 as stated: toDate is the current time and fromDate is sinceTime if
\* set, else toDate minus sinceSeconds seconds if set, else the pod's
\* creation timestamp.
C8_Window ==
    LogsWroteOutputs =>
        LET opts == arg.v.options
            now == arg.env.now
            info == out.filled.outputs.info
        IN  /\ info.toDate = now
            /\ info.fromDate =
                  IF ~IsNil(opts.sinceTime) THEN Deref(opts.sinceTime)
                  ELSE IF ~IsNil(opts.sinceSeconds)
                  THEN [sec |-> Sub64(now.sec, Deref(opts.sinceSeconds)), nsec |-> now.nsec]
                  ELSE arg.env.pod.creationTimestamp

(***************************************************************************)
(* Claims about every operation (SpecProvider).                            *)
(***************************************************************************)
ListOperations == {"listResourcesInApp", "collectPods", "searchEvents"}

\* The value of a list operation has every field the operation reads.
ListInputsValid ==
    IF op = "listResourcesInApp"
    THEN HasField(arg.v, "app") /\ IsNil(arg.v.app.unmarshalErr)
    ELSE DOMAIN arg.v = {"value", "cluster"} /\ IsNil(arg.v.value.unmarshalErr)

\* C9 as stated: a completed call either writes its payload ('list', or
\* the log text in 'outputs') and no 'err', or an 'err' (or returns an
\* error) and no payload.
C9_PayloadOrError ==
    /\ op \in ListOperations \cup {"collectServiceEndpoints"} =>
          \/ IsNil(out.ret) /\ DOMAIN out.filled = {"list"}
          \/ IsNil(out.ret) /\ DOMAIN out.filled = {"err"}
          \/ ~IsNil(out.ret) /\ DOMAIN out.filled = {}
    /\ CalledLogs =>
          \/ LogsWroteOutputs /\ "err" \notin DOMAIN out.filled.outputs
          \/ ~IsNil(out.ret) /\ DOMAIN out.filled = {}

\* C9 amended: each list operation and collectServiceEndpoints either
\* fills exactly 'list', or fills exactly 'err' (whenever its collaborator
\* reports an error, whatever list came with it), or returns an error and
\* fills nothing.  collectLogsInPod either returns an error and fills
\* nothing, or fills 'outputs', which always holds 'logs' and the time
\* window and holds 'err' as well exactly when the stream could not be
\* opened or a read failed with an error other than end-of-stream; 'logs'
\* is then the text read before the error.
C9_ListOrErrAndLogsWithErr ==
    /\ op \in ListOperations \cup {"collectServiceEndpoints"} =>
          \/ IsNil(out.ret) /\ DOMAIN out.filled = {"list"}
          \/ IsNil(out.ret) /\ DOMAIN out.filled = {"err"}
          \/ ~IsNil(out.ret) /\ DOMAIN out.filled = {}
    /\ (op \in ListOperations /\ ListInputsValid) =>
          /\ IsNil(out.ret)
          /\ DOMAIN out.filled = IF IsNil(arg.env.collected.err) THEN {"list"} ELSE {"err"}
    /\ op = "collectServiceEndpoints" => "err" \notin DOMAIN out.filled
    /\ CalledLogs =>
          \/ ~IsNil(out.ret) /\ DOMAIN out.filled = {}
          \/ /\ LogsWroteOutputs
             /\ {"logs", "info"} \subseteq DOMAIN out.filled.outputs
             /\ "err" \in DOMAIN out.filled.outputs <=>
                    (~IsNil(arg.env.streamErr) \/ ~IsEOF(arg.env.stream.endErr))
             /\ out.filled.outputs.logs =
                    IF IsNil(arg.env.streamErr) THEN arg.env.stream.data ELSE <<>>

\* A read failed after a full line and a partial one, and the call wrote
\* the text read so far together with 'err'.
C9_Witness ==
    /\ LogsWroteOutputs
    /\ arg.env.stream = [data |-> <<"a", "\n", "a">>, endErr |-> ErrReset]
    /\ out.filled.outputs.logs = <<"a", "\n", "a">>
    /\ "err" \in DOMAIN out.filled.outputs

(***************************************************************************)
(* Claims about collectServiceEndpoints (SpecProvider).                    *)
(***************************************************************************)
CalledEndpoints == op = "collectServiceEndpoints"

\* The value names the application and the option could be decoded.
EndpointInputsValid ==
    CalledEndpoints /\ HasField(arg.v, "app") /\ IsNil(arg.v.app.unmarshalErr)

AppAnswer == ClusterGet(arg.env, AppKey)

\* C4 as stated: when the application cannot be found or cannot be
\* retrieved, the call fails and writes no 'list'.
C4_MissingAppAborts ==
    (EndpointInputsValid /\ AppAnswer.status # "ok") =>
        /\ ~IsNil(out.ret)
        /\ "list" \notin DOMAIN out.filled

\* The lookups of applied resources that can fail, each with the names of
\* the objects it yields.
GetLookups ==
    { [kind |-> "get", key |-> KeyOf(WebRef), names |-> {"web"}],
      [kind |-> "get", key |-> KeyOf(DBRef), names |-> {"db"}],
      [kind |-> "get", key |-> KeyOf(IngRef), names |-> {"ing"}] }

HelmLookups ==
    { [kind |-> "services", key |-> HelmKey(RelRef), names |-> {"rel-svc"}],
      [kind |-> "ingress", key |-> HelmKey(RelRef), names |-> {"rel-ing"}] }

\* The environment in which one lookup fails.
WithGetAnswer(env, key, answer) == [env EXCEPT !.objects[key] = answer]

WithHelmFailure(env, lookup) ==
    IF lookup.kind = "services"
    THEN [env EXCEPT !.helm[lookup.key].services = CollectFailed("list services failed")]
    ELSE [env EXCEPT !.helm[lookup.key].ingress = CollectFailed("list ingresses failed")]

FailedEnvs ==
    { [env |-> WithGetAnswer(arg.env, l.key, a), names |-> l.names] :
        l \in GetLookups, a \in {NotFoundAnswer, Failing} }
    \cup { [env |-> WithHelmFailure(arg.env, l), names |-> l.names] : l \in HelmLookups }

\* The endpoints of a list that do not come from the named objects.
WithoutObjects(list, names) == SelectSeq(list, LAMBDA e : e.ref.name \notin names)

\* C10: once the application is obtained the call writes 'list' whatever
\* lookups of applied resources fail, and making any one lookup fail (a
\* Service or Ingress Get answering NotFound or an error, a HelmRelease's
\* service collection or its ingress collection) removes from the list
\* exactly the endpoints of the objects of that lookup: the endpoints of
\* every other resource, and of the HelmRelease's other collection, stay,
\* in the same order.
C10_FailuresSkipOnlyThemselves ==
    (EndpointInputsValid /\ AppAnswer.status = "ok") =>
        /\ IsNil(out.ret)
        /\ DOMAIN out.filled = {"list"}
        /\ \A f \in FailedEnvs :
              LET r == GeneratorServiceEndpoints(arg.v, f.env)
              IN  /\ IsNil(r.ret)
                  /\ DOMAIN r.filled = {"list"}
                  /\ r.filled.list = WithoutObjects(out.filled.list, f.names)

\* The application applies a service whose Get fails and a HelmRelease
\* whose service collection fails: the call wrote the list, which holds
\* the endpoint of the release's ingress.
C10_Witness ==
    /\ EndpointInputsValid
    /\ AppAnswer.status = "ok"
    /\ AppAnswer.obj.appliedResources = <<WebRef, RelRef>>
    /\ ClusterGet(arg.env, KeyOf(WebRef)) = Failing
    /\ ~IsNil(arg.env.helm[HelmKey(RelRef)].services.err)
    /\ IsNil(out.ret)
    /\ Len(out.filled.list) = 1
    /\ out.filled.list[1].ref.name = "rel-ing"

(***************************************************************************)
(* Claims about NodePort services (SpecDeriver).                           *)
(***************************************************************************)
\* C11: a NodePort service yields exactly one endpoint per service port, in
\* port order, each with an empty host, the port's protocol and the port's
\* NodePort number (not its Port), whatever the load-balancer status holds.
C11_NodePortPerPort ==
    (CalledFromService /\ arg.service.type = ServiceTypeNodePort) =>
        LET svc == arg.service
        IN  /\ Len(out.list) = Len(svc.ports)
            /\ \A i \in 1..Len(svc.ports) :
                 /\ out.list[i].endpoint.host = ""
                 /\ out.list[i].endpoint.protocol = svc.ports[i].protocol
                 /\ out.list[i].endpoint.port = svc.ports[i].nodePort
                 /\ out.list[i].ref.name = svc.name
            /\ out.list = generatorFromService([svc EXCEPT !.lbIngress = <<>>])

\* A NodePort service with two different ports, whose node ports differ
\* from their ports, and with a load-balancer entry, has been converted
\* into two endpoints.
C11_Witness ==
    /\ CalledFromService
    /\ arg.service.type = ServiceTypeNodePort
    /\ Len(arg.service.ports) = 2
    /\ arg.service.ports[1] # arg.service.ports[2]
    /\ \A i \in 1..2 : arg.service.ports[i].nodePort # arg.service.ports[i].port
    /\ Len(arg.service.lbIngress) > 0
    /\ Len(out.list) = 2
    /\ out.list[1].endpoint.port = arg.service.ports[1].nodePort

(***************************************************************************)
(* Claims about unsupported ingresses (SpecProvider).                      *)
(***************************************************************************)
\* An applied Ingress whose group is not the networking group or whose
\* version is neither v1beta1 nor v1.
UnsupportedIngress(r) ==
    /\ r.kind = "Ingress"
    /\ r.group # "networking.k8s.io" \/ r.version \notin {"v1beta1", "v1"}

AppliedOfCall == AppAnswer.obj.appliedResources

\* C12: an applied Ingress of an unsupported group or version contributes
\* no endpoint and is never fetched, and the call still succeeds and writes
\* the list it would write if that resource were not applied at all.
C12_UnsupportedIngressSkipped ==
    (EndpointInputsValid /\ AppAnswer.status = "ok") =>
        /\ IsNil(out.ret)
        /\ DOMAIN out.filled = {"list"}
        /\ \A i \in 1..Len(AppliedOfCall) :
              UnsupportedIngress(AppliedOfCall[i]) =>
                 /\ \A g \in 1..Len(out.gets) : out.gets[g] # KeyOf(AppliedOfCall[i])
                 /\ \A k \in 1..Len(out.filled.list) :
                       out.filled.list[k].ref.name # AppliedOfCall[i].name
        /\ out.filled.list =
              AppliedEndpoints(arg.v.app.filter, arg.env,
                               SelectSeq(AppliedOfCall, LAMBDA r : ~UnsupportedIngress(r)), 1)

\* The application applies an ingress of the extensions group, which the
\* cluster holds, and a service: the call wrote the service's endpoints
\* only, and fetched the application and the service only.
C12_Witness ==
    /\ EndpointInputsValid
    /\ AppAnswer.status = "ok"
    /\ AppliedOfCall = <<OldIngRef, WebRef>>
    /\ arg.v.app.filter.components = {}
    /\ arg.v.app.filter.clusterNamespace = ""
    /\ arg.v.app.filter.cluster = ""
    /\ ClusterGet(arg.env, KeyOf(OldIngRef)).status = "ok"
    /\ ClusterGet(arg.env, KeyOf(WebRef)).status = "ok"
    /\ IsNil(out.ret)
    /\ Len(out.filled.list) = 4
    /\ \A k \in 1..4 : out.filled.list[k].ref.name = "web"
    /\ out.gets = <<AppKey, KeyOf(WebRef)>>

(***************************************************************************)
(* Claims about read errors of the log stream (SpecProvider).              *)
(***************************************************************************)
\* The call opened the log stream without error.
LogsStreamOpened == LogsReachedStream /\ IsNil(arg.env.streamErr)

\* C13: once the stream is open the call does not fail; it writes all the
\* text read, the partial last line included, and the time window; a read
\* error other than end-of-stream is attached as 'err' of the same
\* 'outputs', and end-of-stream attaches no 'err'.
C13_ReadErrorAttached ==
    LogsStreamOpened =>
        /\ LogsWroteOutputs
        /\ out.filled.outputs.logs = arg.env.stream.data
        /\ out.filled.outputs.info.toDate = arg.env.now
        /\ "fromDate" \in DOMAIN out.filled.outputs.info
        /\ IF arg.env.stream.endErr = ErrEOF
           THEN "err" \notin DOMAIN out.filled.outputs
           ELSE /\ "err" \in DOMAIN out.filled.outputs
                /\ out.filled.outputs.err = Deref(arg.env.stream.endErr).msg

\* The stream broke after an empty line and one more character: the call
\* succeeded with both in 'logs' and the reset message as 'err'.
C13_Witness ==
    /\ LogsStreamOpened
    /\ arg.env.stream = [data |-> <<"\n", "a">>, endErr |-> ErrReset]
    /\ LogsWroteOutputs
    /\ out.filled.outputs.logs = <<"\n", "a">>
    /\ out.filled.outputs.err = <<"connection reset by peer">>

(***************************************************************************)
(* Claims about the order of the endpoints (SpecProvider).                 *)
(***************************************************************************)
\* The list the call writes when the application applies r alone.
ListOfOne(r) ==
    GeneratorServiceEndpoints(
        arg.v,
        [arg.env EXCEPT !.objects[AppKey] = Ok(MakeApplication(<<r>>))]).filled.list

RECURSIVE ListsOfEach(_, _)
ListsOfEach(applied, i) ==
    IF i > Len(applied) THEN <<>>
    ELSE ListOfOne(applied[i]) \o ListsOfEach(applied, i + 1)

\* Where an endpoint of a service comes from: the index of its port, then
\* the index of the load-balancer entry holding its host (0 without host).
ServiceOrigin(svc, e) ==
    << CHOOSE i \in 1..Len(svc.ports) :
          IF svc.type = "NodePort" THEN svc.ports[i].nodePort = e.port
          ELSE svc.ports[i].port = e.port,
       IF e.host = "" THEN 0
       ELSE CHOOSE j \in 1..Len(svc.lbIngress) :
               e.host \in {svc.lbIngress[j].hostname, svc.lbIngress[j].ip} >>

\* Where an endpoint of an ingress comes from: the index of its rule, then
\* the index of its path in the rule.
IngressOrigin(ing, e) ==
    LET i == CHOOSE i \in 1..Len(ing.rules) : ing.rules[i].host = e.host
        paths == Deref(ing.rules[i].http).paths
    IN  <<i, CHOOSE j \in 1..Len(paths) : paths[j] = e.path>>

\* Where an endpoint of a HelmRelease comes from: services first.
HelmOrigin(e) == <<IF e.ref.kind = "Service" THEN 1 ELSE 2, 0>>

OriginIn(r, e) ==
    IF r.kind = "Service" THEN ServiceOrigin(ClusterGet(arg.env, KeyOf(r)).obj, e.endpoint)
    ELSE IF r.kind = "Ingress"
    THEN IngressOrigin(ClusterGet(arg.env, KeyOf(r)).obj, e.endpoint)
    ELSE HelmOrigin(e)

LexLess(a, b) == a[1] < b[1] \/ (a[1] = b[1] /\ a[2] < b[2])

\* C14: the list is the same whenever it is derived again from the same
\* application status and objects; it is the concatenation, in
\* applied-resources order, of the lists of the single resources; and
\* inside the list of one resource the endpoints follow the object's
\* order: port then load-balancer entry for a Service, rule then path for
\* an Ingress, services before ingresses for a HelmRelease.
C14_OrderPreserved ==
    (EndpointInputsValid /\ AppAnswer.status = "ok") =>
        /\ GeneratorServiceEndpoints(arg.v, arg.env).filled.list = out.filled.list
        /\ out.filled.list = ListsOfEach(AppliedOfCall, 1)
        /\ \A i \in 1..Len(AppliedOfCall) :
              LET one == ListOfOne(AppliedOfCall[i])
              IN  \A k \in 1..(Len(one) - 1) :
                     LexLess(OriginIn(AppliedOfCall[i], one[k]),
                             OriginIn(AppliedOfCall[i], one[k + 1]))

\* The application applies an ingress with two rules, the first with two
\* paths, and then a service with two ports and two load-balancer entries:
\* the call wrote the three endpoints of the ingress, rule by rule, and
\* then the four of the service, port by port.
C14_Witness ==
    /\ EndpointInputsValid
    /\ AppAnswer.status = "ok"
    /\ AppliedOfCall = <<IngRef, WebRef>>
    /\ IsNil(out.ret)
    /\ Len(out.filled.list) = 7
    /\ [k \in 1..7 |-> out.filled.list[k].endpoint.host] =
          <<HostB, HostB, HostA, "lb.example.com", "10.0.0.1", "lb.example.com", "10.0.0.1">>
    /\ [k \in 1..7 |-> out.filled.list[k].endpoint.port] = <<80, 80, 80, 80, 80, 443, 443>>
    /\ out.filled.list[2].endpoint.path = "/api"

(***************************************************************************)
(* The webhook usecase (package usecase, webhook.go).                      *)
(*                                                                         *)
(* The datastore holds the triggers by token, the applications by name and *)
(* the components by application and name.  HandleApplicationWebhook holds *)
(* no lock and waits for the datastore at every ds.Get, ds.List and ds.Put,*)
(* for the body of its request in req.ReadEntity and for Deploy, so the    *)
(* calls in flight interleave at these points: a call is a record with its *)
(* position pc, what it has read so far (the trigger, its own copy of the  *)
(* component) and the trace of its collaborator calls, and each            *)
(* collaborator call is one step.                                          *)
(***************************************************************************)
PayloadTypeCustom == "custom"
PayloadTypeACR == "acr"

ErrInvalidWebhookToken == NewError("bcode", <<"ErrInvalidWebhookToken">>)
ErrApplicationNotExist == NewError("bcode", <<"ErrApplicationNotExist">>)
ErrInvalidWebhookPayloadType == NewError("bcode", <<"ErrInvalidWebhookPayloadType">>)
ErrInvalidWebhookPayloadBody == NewError("bcode", <<"ErrInvalidWebhookPayloadBody">>)
ErrApplicationComponetNotExist == NewError("bcode", <<"ErrApplicationComponetNotExist">>)

\* An error of a collaborator that is none of the above.
CollaboratorError(call) == NewError("other", <<call, " failed">>)

\* One recorded collaborator call: what was called, on what, how it ended.
Event(call, on, res) == [call |-> call, on |-> on, res |-> res]

ComponentKey(app, name) == <<app, name>>

\* customHandlerImpl.install and acrHandlerImpl.install
InstallCustom(handlers) == Append(handlers, PayloadTypeCustom)
InstallACR(handlers) == Append(handlers, PayloadTypeACR)

\* registerHandlers
registerHandlers(handlers) == InstallACR(InstallCustom(handlers))

\* envbinding.MergeRawExtension(base, patch): the patch's keys override.
MergeRawExtension(base, patch) == patch @@ base

\* fmt.Sprintf("registry.%s.aliyuncs.com/%s:%s", region, repoFullName, tag)
ImageOf(req) ==
    <<"registry.", req.repository.region, ".aliyuncs.com/", req.repository.repoFullName,
      ":", req.pushData.tag>>

(***************************************************************************)
(* The data of the webhook usecase: triggers, datastores, requests.        *)
(***************************************************************************)
MaxUsecases == 2

Trigger(app, payloadType) ==
    [appPrimaryKey |-> app, payloadType |-> payloadType, workflowName |-> "wf"]

Triggers ==
    ("t-custom" :> Trigger("app", PayloadTypeCustom))
        @@ ("t-acr" :> Trigger("app", PayloadTypeACR))
        @@ ("t-hub" :> Trigger("app", "dockerHub"))
        @@ ("t-orphan" :> Trigger("gone", PayloadTypeCustom))

Tokens == DOMAIN Triggers \cup {"t-unknown"}

InitialProperties == [image |-> <<"nginx:v1">>]

\* The datastores a run starts from: application "app" with no component,
\* with component a, or with components a and b.
InitialStores ==
    { [triggers |-> Triggers, apps |-> {"app"},
       components |-> [k \in {ComponentKey("app", n) : n \in names} |-> InitialProperties]] :
        names \in {{}, {"a"}, {"a", "b"}} }

ImagePatch == [image |-> <<"nginx:v2">>]
CPUPatch == [cpu |-> <<"500m">>]

\* Upgrade maps: empty, a alone, a and b, a and a component c that no
\* datastore holds.
Upgrades ==
    { <<>>, "a" :> ImagePatch, ("a" :> ImagePatch) @@ ("b" :> CPUPatch),
      ("a" :> ImagePatch) @@ ("c" :> CPUPatch) }

WebhookRequest(bodyOK, upgrade) ==
    [bodyOK |-> bodyOK, upgrade |-> upgrade, codeInfo |-> "commit-1",
     repository |-> [region |-> "cn-hangzhou", repoFullName |-> "ns/app"],
     pushData |-> [tag |-> "v3"]]

UndecodableRequest == WebhookRequest(FALSE, <<>>)

\* The requests sent with a token: every upgrade map to the custom
\* trigger, one decodable and one undecodable body to the ACR trigger, one
\* body where none is read.
RequestsFor(token) ==
    IF token = "t-custom"
    THEN {UndecodableRequest} \cup {WebhookRequest(TRUE, u) : u \in Upgrades}
    ELSE IF token = "t-acr"
    THEN {UndecodableRequest, WebhookRequest(TRUE, "a" :> ImagePatch)}
    ELSE {WebhookRequest(TRUE, "a" :> ImagePatch)}

\* The orders in which a set can be ranged over or listed.
Orders(S) ==
    {s \in [1..Cardinality(S) -> S] : \A i, j \in 1..Cardinality(S) : s[i] = s[j] => i = j}

ComponentsOf(store, app) == {k[2] : k \in {c \in DOMAIN store.components : c[1] = app}}

\* The calls of HandleApplicationWebhook that can be in flight together.
Callers == {"A", "B"}

\* How a call of patchComponentProperties can end.
PatchOutcomes == {"ok", "merge", "ds.Put"}

(***************************************************************************)
(* A call of HandleApplicationWebhook and its steps.                       *)
(***************************************************************************)
\* No call: nothing read, nothing called, nothing returned.
IdleCall ==
    [pc |-> "idle", token |-> "", req |-> UndecodableRequest, trigger |-> Nil,
     todo |-> {}, component |-> Nil, trace |-> <<>>, resp |-> Nil, err |-> NoError]

Record(call, e) == [call EXCEPT !.trace = Append(@, e)]

\* return resp, err
Return(call, resp, err) == [call EXCEPT !.pc = "done", !.resp = resp, !.err = err]

\* The request arrives: webhookTrigger := &model.ApplicationTrigger{Token: token}
Arrived(token, req) == [IdleCall EXCEPT !.pc = "ds.Get trigger", !.token = token, !.req = req]

AppOf(call) == Deref(call.trigger).appPrimaryKey

\* c.ds.Get(ctx, webhookTrigger) and the test of its error.
GetTrigger(call, store, fails) ==
    IF fails
    THEN Return(Record(call, Event("ds.Get", call.token, "error")), Nil,
                CollaboratorError("ds.Get"))
    ELSE IF call.token \notin DOMAIN store.triggers
    THEN Return(Record(call, Event("ds.Get", call.token, "notexist")), Nil,
                ErrInvalidWebhookToken)
    ELSE [Record(call, Event("ds.Get", call.token, "ok"))
             EXCEPT !.trigger = Ptr(store.triggers[call.token]), !.pc = "ds.Get app"]

\* req.ReadEntity reads and decodes the body of the call's request.
ReadEntity(call) ==
    IF call.req.bodyOK THEN Record(call, Event("ReadEntity", "body", "ok"))
    ELSE Return(Record(call, Event("ReadEntity", "body", "error")), Nil,
                ErrInvalidWebhookPayloadBody)

\* newCustomHandler from its ReadEntity on, and handle up to its first
\* wait: the range over c.req.Upgrade begins, or Deploy is called when the
\* map is empty.
newCustomHandler(call) ==
    LET read == ReadEntity(call)
    IN  IF read.pc = "done" THEN read
        ELSE [read EXCEPT !.todo = DOMAIN call.req.upgrade,
                          !.pc = IF DOMAIN call.req.upgrade = {} THEN "Deploy"
                                 ELSE "ds.Get component"]

\* newACRHandler from its ReadEntity on, and handle up to its first wait,
\* ds.List.
newACRHandler(call) ==
    LET read == ReadEntity(call)
    IN  IF read.pc = "done" THEN read ELSE [read EXCEPT !.pc = "ds.List"]

\* c.ds.Get(ctx, app), the test of its error and the switch on the
\* payload type, up to the wait for the body of the request in ReadEntity.
GetApplication(call, store, fails) ==
    IF fails
    THEN Return(Record(call, Event("ds.Get", AppOf(call), "error")), Nil,
                CollaboratorError("ds.Get"))
    ELSE IF AppOf(call) \notin store.apps
    THEN Return(Record(call, Event("ds.Get", AppOf(call), "notexist")), Nil,
                ErrApplicationNotExist)
    ELSE LET found == Record(call, Event("ds.Get", AppOf(call), "ok"))
             payloadType == Deref(call.trigger).payloadType
         IN  IF payloadType \in {PayloadTypeCustom, PayloadTypeACR}
             THEN [found EXCEPT !.pc = "req.ReadEntity"]
             ELSE Return(found, Nil, ErrInvalidWebhookPayloadType)

IsCustom(call) == Deref(call.trigger).payloadType = PayloadTypeCustom

\* The handler constructor chosen by the switch on the payload type.
newHandler(call) == IF IsCustom(call) THEN newCustomHandler(call) ELSE newACRHandler(call)

\* The position of the custom handler after a component is dealt with.
NextInRange(call) ==
    [call EXCEPT !.pc = IF call.todo = {} THEN "Deploy" ELSE "ds.Get component"]

\* Mutant: a component that does not exist is skipped and the range goes on.
GetComponent_SkipMissing(call, store, comp, fails) ==
    LET key == ComponentKey(AppOf(call), comp)
    IN  IF fails
        THEN Return(Record(call, Event("ds.Get", comp, "error")), Nil,
                    CollaboratorError("ds.Get"))
        ELSE IF key \notin DOMAIN store.components
        THEN NextInRange([Record(call, Event("ds.Get", comp, "notexist"))
                             EXCEPT !.todo = @ \ {comp}])
        ELSE [Record(call, Event("ds.Get", comp, "ok"))
                 EXCEPT !.component = Ptr([name |-> comp,
                                           properties |-> store.components[key]]),
                        !.todo = @ \ {comp}, !.pc = "ds.Put"]

\* customHandlerImpl.handle: c.w.ds.Get(ctx, component) for the next key
\* comp of the range, and the test of its error.  The call keeps its own
\* copy of the component as the datastore held it at this moment.
GetComponent(call, store, comp, fails) ==
    LET key == ComponentKey(AppOf(call), comp)
    IN  IF fails
        THEN Return(Record(call, Event("ds.Get", comp, "error")), Nil,
                    CollaboratorError("ds.Get"))
        ELSE IF key \notin DOMAIN store.components
        THEN Return(Record(call, Event("ds.Get", comp, "notexist")), Nil,
                    ErrApplicationComponetNotExist)
        ELSE [Record(call, Event("ds.Get", comp, "ok"))
                 EXCEPT !.component = Ptr([name |-> comp,
                                           properties |-> store.components[key]]),
                        !.todo = @ \ {comp}, !.pc = "ds.Put"]

\* acrHandlerImpl.handle: c.w.ds.List, the test of its error and of the
\* length of the list; the first listed component is the target, and the
\* call keeps the copy of it that was listed.
ListComponents(call, store, listed, fails) ==
    IF fails
    THEN Return(Record(call, Event("ds.List", AppOf(call), "error")), Nil,
                CollaboratorError("ds.List"))
    ELSE LET got == Record(call, Event("ds.List", AppOf(call), "ok"))
         IN  IF Len(listed) = 0 THEN Return(got, Nil, ErrApplicationComponetNotExist)
             ELSE [got EXCEPT
                      !.component =
                          Ptr([name |-> listed[1],
                               properties |->
                                   store.components[ComponentKey(AppOf(call), listed[1])]]),
                      !.pc = "ds.Put"]

\* The patch handed to patchComponentProperties by the handler.
PatchOf(call) ==
    IF IsCustom(call) THEN call.req.upgrade[Deref(call.component).name]
    ELSE [image |-> ImageOf(call.req)]

\* patchComponentProperties: the properties of the call's copy of the
\* component merged with the patch.
MergedProperties(call) == MergeRawExtension(Deref(call.component).properties, PatchOf(call))

\* patchComponentProperties as the call sees it: merge, ds.Put, and what
\* the handler does with the error.
patchComponentProperties(call, outcome) ==
    LET name == Deref(call.component).name
    IN  IF outcome = "merge" THEN Return(call, Nil, CollaboratorError("merge"))
        ELSE IF outcome = "ds.Put"
        THEN Return(Record(call, Event("ds.Put", name, "error")), Nil,
                    CollaboratorError("ds.Put"))
        ELSE LET put == Record(call, Event("ds.Put", name, "ok"))
             IN  IF IsCustom(call) THEN NextInRange(put) ELSE [put EXCEPT !.pc = "Deploy"]

\* patchComponentProperties as the datastore sees it: ds.Put stores the
\* call's copy of the component, whatever the datastore holds by now.
PutComponent(store, call, outcome) ==
    IF outcome = "ok"
    THEN [store EXCEPT !.components[ComponentKey(AppOf(call), Deref(call.component).name)] =
                          MergedProperties(call)]
    ELSE store

\* The ApplicationDeployRequest of each handler.
DeployRequest(call) ==
    LET trigger == Deref(call.trigger)
    IN  IF IsCustom(call)
        THEN [app |-> AppOf(call), workflowName |-> trigger.workflowName,
              note |-> "triggered by webhook custom", triggerType |-> "webhook",
              force |-> TRUE, codeInfo |-> call.req.codeInfo]
        ELSE [app |-> AppOf(call), workflowName |-> trigger.workflowName,
              note |-> "triggered by webhook acr", triggerType |-> "webhook",
              force |-> TRUE, image |-> ImageOf(call.req)]

\* return c.w.applicationUsecase.Deploy(ctx, app, request)
Deploy(call, fails) ==
    IF fails
    THEN Return(Record(call, Event("Deploy", AppOf(call), "error")), Nil,
                CollaboratorError("Deploy"))
    ELSE Return(Record(call, Event("Deploy", AppOf(call), "ok")),
                Ptr([app |-> AppOf(call), workflow |-> DeployRequest(call).workflowName]),
                NoError)

(***************************************************************************)
(* Specification of the webhook usecase: usecases are constructed, and     *)
(* the calls in flight take their steps in any order on one datastore.     *)
(***************************************************************************)
InitWebhook ==
    /\ op = "init"
    /\ arg = <<>>
    /\ out = <<>>
    /\ WebhookHandlers = <<>>
    /\ ds \in InitialStores
    /\ deployed = [c \in Callers |-> <<>>]
    /\ calls = [c \in Callers |-> IdleCall]

\* NewWebhookUsecase: registerHandlers, then the usecase is returned.
NewWebhookUsecase ==
    /\ Len(WebhookHandlers) < 2 * MaxUsecases
    /\ WebhookHandlers' = registerHandlers(WebhookHandlers)
    /\ UNCHANGED <<op, arg, out, ds, deployed, calls>>

\* A step of caller c that leaves the datastore as it is.
Step(c, after) ==
    /\ calls' = [calls EXCEPT ![c] = after]
    /\ UNCHANGED <<op, arg, out, WebhookHandlers, ds, deployed>>

\* HandleApplicationWebhook is called on a usecase constructed before, by
\* a caller whose earlier call, if any, has returned.
CallHandleApplicationWebhook(c) ==
    /\ Len(WebhookHandlers) > 0
    /\ calls[c].pc \in {"idle", "done"}
    /\ \E token \in Tokens : \E req \in RequestsFor(token) :
          /\ calls' = [calls EXCEPT ![c] = Arrived(token, req)]
          /\ deployed' = [deployed EXCEPT ![c] = <<>>]
    /\ UNCHANGED <<op, arg, out, WebhookHandlers, ds>>

StepGetTrigger(c) ==
    /\ calls[c].pc = "ds.Get trigger"
    /\ \E fails \in BOOLEAN : Step(c, GetTrigger(calls[c], ds, fails))

StepGetApplication(c) ==
    /\ calls[c].pc = "ds.Get app"
    /\ \E fails \in BOOLEAN : Step(c, GetApplication(calls[c], ds, fails))

\* The body of the request has come in and is decoded.
StepReadEntity(c) ==
    /\ calls[c].pc = "req.ReadEntity"
    /\ Step(c, newHandler(calls[c]))

\* The range over the upgrade map takes any key not yet visited.
StepGetComponent(c) ==
    /\ calls[c].pc = "ds.Get component"
    /\ \E comp \in calls[c].todo, fails \in BOOLEAN :
          Step(c, GetComponent(calls[c], ds, comp, fails))

\* The datastore lists the components of the application in any order.
StepListComponents(c) ==
    /\ calls[c].pc = "ds.List"
    /\ \E listed \in Orders(ComponentsOf(ds, AppOf(calls[c]))), fails \in BOOLEAN :
          Step(c, ListComponents(calls[c], ds, listed, fails))

StepPatchComponent(c) ==
    /\ calls[c].pc = "ds.Put"
    /\ \E outcome \in PatchOutcomes :
          /\ calls' = [calls EXCEPT ![c] = patchComponentProperties(calls[c], outcome)]
          /\ ds' = PutComponent(ds, calls[c], outcome)
    /\ UNCHANGED <<op, arg, out, WebhookHandlers, deployed>>

StepDeploy(c) ==
    /\ calls[c].pc = "Deploy"
    /\ \E fails \in BOOLEAN :
          calls' = [calls EXCEPT ![c] = Deploy(calls[c], fails)]
    /\ deployed' = [deployed EXCEPT ![c] = Append(@, DeployRequest(calls[c]))]
    /\ UNCHANGED <<op, arg, out, WebhookHandlers, ds>>

NextWebhook ==
    \/ NewWebhookUsecase
    \/ \E c \in Callers : CallHandleApplicationWebhook(c)
    \/ \E c \in Callers : StepGetTrigger(c)
    \/ \E c \in Callers : StepGetApplication(c)
    \/ \E c \in Callers : StepReadEntity(c)
    \/ \E c \in Callers : StepGetComponent(c)
    \/ \E c \in Callers : StepListComponents(c)
    \/ \E c \in Callers : StepPatchComponent(c)
    \/ \E c \in Callers : StepDeploy(c)

SpecWebhook == InitWebhook /\ [][NextWebhook]_vars

(***************************************************************************)
(* Claims about HandleApplicationWebhook (SpecWebhook).                    *)
(***************************************************************************)
\* The callers whose call has returned.
Finished == {c \in Callers : calls[c].pc = "done"}

\* The positions of the trace of a call at which Deploy was called.
DeployPositions(c) ==
    {p \in 1..Len(calls[c].trace) : calls[c].trace[p].call = "Deploy"}

\* The trigger and the application of a call, as the datastore holds them
\* (no call adds or removes a trigger, an application or a component).
TriggerKnown(c) == calls[c].token \in DOMAIN ds.triggers
TriggerOfCall(c) == ds.triggers[calls[c].token]
AppOfCall(c) == TriggerOfCall(c).appPrimaryKey
AppKnown(c) == TriggerKnown(c) /\ AppOfCall(c) \in ds.apps
HandlerKnown(c) == AppKnown(c) /\ TriggerOfCall(c).payloadType \in {"custom", "acr"}
ComponentsStored(c) == ComponentsOf(ds, AppOfCall(c))

\* No collaborator of the call failed.
NoFault(c) ==
    calls[c].err \notin
        {CollaboratorError(x) : x \in {"ds.Get", "ds.List", "ds.Put", "merge", "Deploy"}}

\* C15: a call invokes Deploy at most once, as its last collaborator call,
\* and only after, in this order, the trigger was found, the application
\* was found, the payload type was custom or ACR, the body was decoded and
\* every component patch was stored with ds.Put; a call without Deploy
\* returns an error, which for an unknown token, a missing application,
\* another payload type, an undecodable body, a missing component and an
\* ACR call without components is the error of that case.  This holds of
\* every call, whatever the other calls in flight do.
C15_DeployOnceAfterAll ==
    \A c \in Finished :
        LET call == calls[c]
            tr == call.trace
        IN  /\ Cardinality(DeployPositions(c)) <= 1
            /\ Len(deployed[c]) = Cardinality(DeployPositions(c))
            /\ DeployPositions(c) = {} => ~IsNil(call.err)
            /\ \A p \in DeployPositions(c) :
                 /\ p = Len(tr)
                 /\ \A q \in 1..(p - 1) : tr[q].res = "ok"
                 /\ HandlerKnown(c)
                 /\ tr[1] = Event("ds.Get", call.token, "ok")
                 /\ tr[2] = Event("ds.Get", AppOfCall(c), "ok")
                 /\ tr[3] = Event("ReadEntity", "body", "ok")
                 /\ TriggerOfCall(c).payloadType = "custom" =>
                       \A n \in DOMAIN call.req.upgrade :
                          \E q \in 4..(p - 1) : tr[q] = Event("ds.Put", n, "ok")
                 /\ TriggerOfCall(c).payloadType = "acr" =>
                       /\ tr[4] = Event("ds.List", AppOfCall(c), "ok")
                       /\ \E n \in ComponentsStored(c) : tr[5] = Event("ds.Put", n, "ok")
                       /\ p = 6
            /\ NoFault(c) =>
                 /\ ~TriggerKnown(c) => call.err = ErrInvalidWebhookToken
                 /\ (TriggerKnown(c) /\ ~AppKnown(c)) => call.err = ErrApplicationNotExist
                 /\ (AppKnown(c) /\ ~HandlerKnown(c)) =>
                       call.err = ErrInvalidWebhookPayloadType
                 /\ (HandlerKnown(c) /\ ~call.req.bodyOK) =>
                       call.err = ErrInvalidWebhookPayloadBody
                 /\ (HandlerKnown(c) /\ call.req.bodyOK
                        /\ TriggerOfCall(c).payloadType = "custom"
                        /\ ~(DOMAIN call.req.upgrade \subseteq ComponentsStored(c))) =>
                       call.err = ErrApplicationComponetNotExist
                 /\ (HandlerKnown(c) /\ call.req.bodyOK
                        /\ TriggerOfCall(c).payloadType = "acr"
                        /\ ComponentsStored(c) = {}) =>
                       call.err = ErrApplicationComponetNotExist
            /\ ~IsNil(call.err) =>
                 \A p \in DeployPositions(c) : tr[p].res = "error"

\* A custom call naming the two stored components a and b went through,
\* b first: trigger, application, body, a Get and a Put for each, then
\* Deploy; meanwhile an ACR call listed b between this call's Get and Put
\* of b and stored it afterwards, so that the patch of this call is lost.
C15_Witness ==
    /\ Finished = Callers
    /\ calls["A"].token = "t-custom"
    /\ DOMAIN calls["A"].req.upgrade = {"a", "b"}
    /\ IsNil(calls["A"].err)
    /\ Len(calls["A"].trace) = 8
    /\ calls["A"].trace[4] = Event("ds.Get", "b", "ok")
    /\ calls["A"].trace[8] = Event("Deploy", "app", "ok")
    /\ Len(deployed["A"]) = 1
    /\ calls["B"].token = "t-acr"
    /\ IsNil(calls["B"].err)
    /\ Len(deployed["B"]) = 1
    /\ ds.components[ComponentKey("app", "b")] = [image |-> ImageOf(calls["B"].req)]
    /\ ds.components[ComponentKey("app", "a")] = [image |-> <<"nginx:v2">>]

(***************************************************************************)
(* Claims about the datastore after a failed custom call (SpecWebhook).    *)
(***************************************************************************)
\* The call of c ran the custom handler.
HandledCustom(c) ==
    /\ c \in Finished
    /\ HandlerKnown(c)
    /\ TriggerOfCall(c).payloadType = "custom"
    /\ calls[c].req.bodyOK

\* The components the call of c stored with ds.Put.
StoredBy(c) ==
    {calls[c].trace[p].on :
        p \in {q \in 1..Len(calls[c].trace) :
                  calls[c].trace[q].call = "ds.Put" /\ calls[c].trace[q].res = "ok"}}

\* C16 as stated: a custom call that returns an error because a component
\* of the upgrade map does not exist or could not be patched has modified
\* the properties of no component, whatever the order of the range.
C16_FailedCallChangesNothing ==
    \A c \in Callers :
        (HandledCustom(c) /\ ~IsNil(calls[c].err) /\ DeployPositions(c) = {}) =>
            StoredBy(c) = {}

(***************************************************************************)
(* Claims about the list of webhook handlers (SpecWebhook).                *)
(***************************************************************************)
\* How often a payload type is in the list of handlers.
TimesRegistered(type) ==
    Cardinality({i \in 1..Len(WebhookHandlers) : WebhookHandlers[i] = type})

\* C18 as stated: once a usecase has been constructed, the list of
\* handlers holds custom exactly once and ACR exactly once, however many
\* usecases have been constructed.
C18_EachTypeOnce ==
    Len(WebhookHandlers) > 0 =>
        /\ TimesRegistered("custom") = 1
        /\ TimesRegistered("acr") = 1

(***************************************************************************)
(* The addon status (package addon): GetAddonStatus.                       *)
(*                                                                         *)
(* env holds what the cluster answers: the application of the addon, the   *)
(* secret of the observability addon, the domains allocated to the         *)
(* clusters and the endpoint service of each cluster.                      *)
(***************************************************************************)
disabled == "disabled"
enabled == "enabled"
enabling == "enabling"
disabling == "disabling"
suspend == "suspend"

ObservabilityAddon == "observability"
ApplicationRunning == "running"
ApplicationDeleting == "deleting"

\* Status{AddonPhase, AppStatus, Clusters} and the error returned with it.
StatusOf(phase, appStatus, clusters) ==
    [status |-> [addonPhase |-> phase, appStatus |-> appStatus, clusters |-> clusters],
     err |-> NoError]

StatusError(err) ==
    [status |-> [addonPhase |-> "", appStatus |-> Nil, clusters |-> Nil], err |-> err]

\* The external IP read from the endpoint service: the IP of its only
\* load-balancer ingress, kept as it was otherwise.
ServiceExternalIP(svc, before) ==
    IF Len(svc.lbIngress) = 1 THEN svc.lbIngress[1].ip ELSE before

\* The loop of GetObservabilityAccessibilityInfo over the domains: the
\* endpoint service of each cluster is fetched, the first error ends it.
RECURSIVE AccessibilityFrom(_, _, _)
AccessibilityFrom(env, domains, i) ==
    IF i > Len(domains) THEN [list |-> domains, err |-> NoError]
    ELSE LET answer == env.endpoint[domains[i].cluster]
         IN  IF answer.status # "ok"
             THEN [list |-> <<>>, err |-> CollaboratorError("Get")]
             ELSE AccessibilityFrom(
                     env,
                     [domains EXCEPT ![i].serviceExternalIP =
                         ServiceExternalIP(answer.obj, @)],
                     i + 1)

\* GetObservabilityAccessibilityInfo
GetObservabilityAccessibilityInfo(env) ==
    IF ~IsNil(env.domains.err) THEN [list |-> <<>>, err |-> env.domains.err]
    ELSE LET looped == AccessibilityFrom(env, env.domains.list, 1)
         IN  IF ~IsNil(looped.err) THEN looped
             ELSE IF Len(looped.list) = 0
             THEN LET answer == env.endpoint[""]
                  IN  IF answer.status # "ok"
                      THEN [list |-> <<>>, err |-> CollaboratorError("Get")]
                      ELSE IF Len(answer.obj.lbIngress) = 1
                      THEN [list |-> <<[cluster |-> "", domain |-> "", loadBalancerIP |-> "",
                                        serviceExternalIP |-> answer.obj.lbIngress[1].ip]>>,
                            err |-> NoError]
                      ELSE looped
             ELSE looped

\* The text of "access" for one cluster.
AccessOf(o) ==
    IF o.loadBalancerIP # ""
    THEN <<"Visiting URL: ", o.domain, ", IP: ", o.loadBalancerIP>>
    ELSE <<"No loadBalancer found, visiting by using 'vela port-forward ", ObservabilityAddon>>

\* The map clusters filled by the range over the accessibility info; a
\* later entry of the same cluster replaces the earlier one.
RECURSIVE ClustersFrom(_, _, _)
ClustersFrom(observability, clusters, i) ==
    IF i > Len(observability) THEN clusters
    ELSE LET o == observability[i]
             entry == [domain |-> o.domain, loadBalancerIP |-> o.loadBalancerIP,
                       access |-> AccessOf(o), serviceExternalIP |-> o.serviceExternalIP]
         IN  ClustersFrom(observability, (o.cluster :> entry) @@ clusters, i + 1)

\* Mutant: the phase of the application is looked at before the workflow.
GetAddonStatus_PhaseFirst(name, env) ==
    IF env.app.status = "notfound" THEN StatusOf(disabled, Nil, Nil)
    ELSE IF env.app.status # "ok" THEN StatusError(CollaboratorError("Get"))
    ELSE LET appStatus == env.app.obj
         IN  IF appStatus.phase = ApplicationRunning
             THEN StatusOf(enabled, Ptr(appStatus), Nil)
             ELSE IF appStatus.phase = ApplicationDeleting
             THEN StatusOf(disabling, Ptr(appStatus), Nil)
             ELSE IF ~IsNil(appStatus.workflow) /\ Deref(appStatus.workflow).suspend
             THEN StatusOf(suspend, Ptr(appStatus), Nil)
             ELSE StatusOf(enabling, Ptr(appStatus), Nil)

\* GetAddonStatus
GetAddonStatus(name, env) ==
    IF env.app.status = "notfound" THEN StatusOf(disabled, Nil, Nil)
    ELSE IF env.app.status # "ok" THEN StatusError(CollaboratorError("Get"))
    ELSE LET appStatus == env.app.obj
         IN  IF ~IsNil(appStatus.workflow) /\ Deref(appStatus.workflow).suspend
             THEN StatusOf(suspend, Ptr(appStatus), Nil)
             ELSE IF appStatus.phase = ApplicationRunning
             THEN IF name = ObservabilityAddon
                  THEN IF env.secret.status # "ok"
                       THEN StatusOf(enabling, Ptr(appStatus), Nil)
                       ELSE LET observability == GetObservabilityAccessibilityInfo(env)
                            IN  IF ~IsNil(observability.err)
                                THEN StatusOf(enabling, Ptr(appStatus), Nil)
                                ELSE StatusOf(enabled, Ptr(appStatus),
                                              Ptr(ClustersFrom(observability.list, <<>>, 1)))
                  ELSE StatusOf(enabled, Ptr(appStatus), Nil)
             ELSE IF appStatus.phase = ApplicationDeleting
             THEN StatusOf(disabling, Ptr(appStatus), Nil)
             ELSE StatusOf(enabling, Ptr(appStatus), Nil)

(***************************************************************************)
(* Specification of the addon status: Init draws the addon's name and the  *)
(* cluster's answers, one action applies GetAddonStatus.                   *)
(***************************************************************************)
AddonNames == {ObservabilityAddon, "fluxcd"}

AppPhases == {ApplicationRunning, ApplicationDeleting, "runningWorkflow",
              "workflowSuspending", "unhealthy", ""}

AppStatuses ==
    [phase : AppPhases, workflow : {Nil, Ptr([suspend |-> FALSE]), Ptr([suspend |-> TRUE])}]

AddonApps == {NotFoundAnswer, Failing} \cup {Ok(s) : s \in AppStatuses}

AddonSecrets == {Failing, Ok([data |-> <<>>]), Ok([data |-> [domain |-> "obs.example.com"]])}

Domain(cluster, loadBalancerIP) ==
    [cluster |-> cluster, domain |-> "obs.example.com", loadBalancerIP |-> loadBalancerIP,
     serviceExternalIP |-> ""]

AllocatedDomains ==
    { CollectFailed("allocate domain failed"), Collected(<<>>),
      Collected(<<Domain("c1", "")>>),
      Collected(<<Domain("c1", "47.0.0.1"), Domain("c2", "")>>) }

EndpointServices ==
    { Failing, Ok([lbIngress |-> <<>>]), Ok([lbIngress |-> <<[ip |-> "10.0.0.9"]>>]),
      Ok([lbIngress |-> <<[ip |-> "10.0.0.9"], [ip |-> "10.0.0.10"]>>]) }

\* The local cluster and c1 answer alike; c2 always holds the service.
AddonEnvs ==
    { [app |-> a, secret |-> s, domains |-> d,
       endpoint |-> ("" :> e) @@ ("c1" :> e) @@ ("c2" :> Ok([lbIngress |-> <<>>]))] :
        a \in AddonApps, s \in AddonSecrets, d \in AllocatedDomains, e \in EndpointServices }

InitAddon ==
    /\ op = "init"
    /\ arg \in [name : AddonNames, env : AddonEnvs]
    /\ out = StatusError(NoError)
    /\ WebhookUntouched

CallGetAddonStatus ==
    /\ op = "init"
    /\ op' = "GetAddonStatus"
    /\ out' = GetAddonStatus(arg.name, arg.env)
    /\ UNCHANGED <<arg, webhookVars>>

NextAddon == CallGetAddonStatus

SpecAddon == InitAddon /\ [][NextAddon]_vars

(***************************************************************************)
(* Claims about GetAddonStatus (SpecAddon).                                *)
(***************************************************************************)
CalledAddonStatus == op = "GetAddonStatus"

\* The application of the addon was fetched, with its status.
AddonAppFound == CalledAddonStatus /\ arg.env.app.status = "ok"

AddonSuspended ==
    /\ ~IsNil(arg.env.app.obj.workflow)
    /\ Deref(arg.env.app.obj.workflow).suspend

\* The secret or the accessibility info of the observability addon could
\* not be read.
ObservabilityUnreadable ==
    \/ arg.env.secret.status # "ok"
    \/ ~IsNil(arg.env.domains.err)
    \/ \E i \in 1..Len(arg.env.domains.list) :
          arg.env.endpoint[arg.env.domains.list[i].cluster].status # "ok"
    \/ Len(arg.env.domains.list) = 0 /\ arg.env.endpoint[""].status # "ok"

\* C17: application not found gives 'disabled' without error, any other
\* fetch error is returned; a suspended workflow gives 'suspend' whatever
\* the phase; otherwise running gives 'enabled', deleting 'disabling' and
\* any other phase 'enabling'; except that the running observability addon
\* whose secret or accessibility info cannot be read gives 'enabling',
\* without error.
C17_PhaseMapping ==
    CalledAddonStatus =>
        /\ arg.env.app.status = "notfound" =>
              IsNil(out.err) /\ out.status.addonPhase = "disabled"
        /\ arg.env.app.status = "error" => ~IsNil(out.err)
        /\ AddonAppFound =>
              /\ IsNil(out.err)
              /\ out.status.addonPhase =
                    IF AddonSuspended THEN "suspend"
                    ELSE IF arg.env.app.obj.phase = "running"
                    THEN IF arg.name = "observability" /\ ObservabilityUnreadable
                         THEN "enabling" ELSE "enabled"
                    ELSE IF arg.env.app.obj.phase = "deleting" THEN "disabling"
                    ELSE "enabling"

\* The status of an addon whose application is deleting while its workflow
\* is suspended has been asked for, and is 'suspend'.
C17_Witness ==
    /\ AddonAppFound
    /\ arg.env.app.obj.phase = "deleting"
    /\ AddonSuspended
    /\ out.status.addonPhase = "suspend"
    /\ IsNil(out.err)

====
